---------------------------- MODULE Spec2Model ----------------------------
(***************************************************************************)
(* A model of the gobft consensus core (bftcore.go): the round state       *)
(* machine of one Core, its vote sets, its timeout ticker and the          *)
(* committee it talks to, run by a set of correct validators next to       *)
(* validators that may send anything.                                      *)
(*                                                                         *)
(* Every transition of Core is an operator from a Core record to a Core    *)
(* record, so that a handler, which runs under one lock hold, is the       *)
(* composition of the transitions it calls.                                *)
(***************************************************************************)
EXTENDS Integers, Sequences, FiniteSets, TLC

\* ------------------------------------------------------------------ bounds
\* The highest round a node may enter and the highest height it works on.
MaxRound == 1
MaxHeight == 1
MaxStops == 1
\* The number of votes of faulty validators a node admits at one height, for
\* each of the three committees below.
SoloFaultyVotes == 3
SyncFaultyVotes == 2
LifeFaultyVotes == 1
NetFaultyVotes == 1
\* The goroutines of one Core: the calls of Start and Stop, the messages
\* sent to msgQueue, the timeouts a handler schedules, and the capacity of
\* msgQueue.
MaxCalls == 4
MaxMsgs == 3
MaxTicks == 2
msgQueueSize == 1

\* ------------------------------------------------------- message package
NilData == 0
X == 1
Y == 2
Data == {NilData, X, Y}

ProposalType == "proposal"
PrevoteType == "prevote"
PrecommitType == "precommit"

\* RoundStepType, in the order of its constants.
RoundStepNewHeight == 1
RoundStepNewRound == 2
RoundStepPropose == 3
RoundStepPrevote == 4
RoundStepPrevoteFetch == 5
RoundStepPrevoteWait == 6
RoundStepPrecommit == 7
RoundStepPrecommitFetch == 8
RoundStepPrecommitWait == 9
RoundStepCommit == 10

\* The validators' addresses.
Vals == 1..4

VARIABLES
    core,       \* core[n]: the Core of validator n (RoundState and the rest)
    started,    \* started[n]: Core.started
    stops,      \* the number of calls of Stop so far
    net,        \* net[s]: the votes validator s has signed, in the order of signing
    pos,        \* pos[n][s]: how many votes of net[s] have reached handleMsg of n
    committee,  \* the committee's configuration: power, proposers, correct set
    rt          \* the goroutines around one Core: the Start/Stop gate, the
                \* receive task, msgQueue and the timeout ticker

vars == <<core, started, stops, net, pos, committee, rt>>

\* ------------------------------------------------------------- committee
\* ICommittee: voting power, proposer election, proposal production and
\* validation.
Power(v) == committee.power[v]
TotalPower == Power(1) + Power(2) + Power(3) + Power(4)
IsValidator(v) == Power(v) > 0
GetCurrentProposer(round) ==
    committee.proposers[(round % Len(committee.proposers)) + 1]
DecidesProposal(n) == IF n % 2 = 1 THEN X ELSE Y
ValidateProposal(p) == p # NilData
SkipTimeoutCommit == committee.skipTimeoutCommit

\* --------------------------------------------------------------- message
Vote(type, height, round, proposed, prev, address) ==
    [Type |-> type, Height |-> height, Round |-> round, Proposed |-> proposed,
     Prev |-> prev, Address |-> address, Sig |-> TRUE]

\* The nil *message.Vote.
NoVote ==
    [Type |-> "none", Height |-> 0, Round |-> 0, Proposed |-> NilData,
     Prev |-> NilData, Address |-> 0, Sig |-> FALSE]

\* ---------------------------------------------------------------- VoteSet
\* A VoteSet is the map from the address of a validator to the value it
\* voted for; the tallies are computed from it.
EmptyVoteSet == <<>>

RECURSIVE SumPower(_)
SumPower(S) ==
    IF S = {} THEN 0
    ELSE LET v == CHOOSE x \in S : TRUE IN Power(v) + SumPower(S \ {v})

Tally(vs, p) == SumPower({v \in DOMAIN vs : vs[v] = p})
TallyAll(vs) == SumPower(DOMAIN vs)

IsTwoThirds(pw) == 3 * pw > 2 * TotalPower

HasTwoThirdsMajority(vs) == \E p \in Data : IsTwoThirds(Tally(vs, p))
\* The value of TwoThirdsMajority(); its ok is HasTwoThirdsMajority.
TwoThirdsMajority(vs) ==
    IF HasTwoThirdsMajority(vs)
    THEN CHOOSE p \in Data : IsTwoThirds(Tally(vs, p))
    ELSE NilData
HasTwoThirdsAny(vs) == IsTwoThirds(TallyAll(vs))
HasAll(vs) == TallyAll(vs) = TotalPower

\* VoteSet.AddVote: [added, err, vs]. A second, different vote of a signer is
\* reported as added with ConflictingVotes and leaves the tally as it was.
VoteSetAddVote(vs, vote) ==
    IF ~IsValidator(vote.Address) \/ ~vote.Sig
    THEN [added |-> FALSE, err |-> "ErrAddingVote", vs |-> vs]
    ELSE IF vote.Address \notin DOMAIN vs
    THEN [added |-> TRUE, err |-> "", vs |-> vs @@ (vote.Address :> vote.Proposed)]
    ELSE IF vs[vote.Address] = vote.Proposed
    THEN [added |-> FALSE, err |-> "", vs |-> vs]
    ELSE [added |-> TRUE, err |-> "ErrVoteConflictingVotes", vs |-> vs]

\* MakeCommit is legal only with a +2/3 majority for a value that is not nil.
CanMakeCommit(vs) == HasTwoThirdsMajority(vs) /\ TwoThirdsMajority(vs) # NilData

\* ---------------------------------------------------------- HeightVoteSet
Rounds == 0..(MaxRound + 1)

\* NewHeightVoteSet: round 0 is tracked.
NewHeightVoteSet(height) ==
    [ok |-> TRUE, height |-> height, round |-> 0,
     prevotes |-> [r \in Rounds |-> EmptyVoteSet],
     precommits |-> [r \in Rounds |-> EmptyVoteSet]]

\* The nil *HeightVoteSet.
NoVotes ==
    [ok |-> FALSE, height |-> 0, round |-> 0,
     prevotes |-> [r \in Rounds |-> EmptyVoteSet],
     precommits |-> [r \in Rounds |-> EmptyVoteSet]]

Prevotes(hvs, round) ==
    IF round \in Rounds /\ round <= hvs.round THEN hvs.prevotes[round] ELSE EmptyVoteSet
Precommits(hvs, round) ==
    IF round \in Rounds /\ round <= hvs.round THEN hvs.precommits[round] ELSE EmptyVoteSet

Max(a, b) == IF a >= b THEN a ELSE b

SetRound(hvs, round) == [hvs EXCEPT !.round = Max(@, round)]

\* HeightVoteSet.AddVote: a vote of a round past the tracked one is rejected.
HeightVoteSetAddVote(hvs, vote) ==
    IF vote.Round \notin Rounds \/ vote.Round > hvs.round \/ vote.Height # hvs.height
    THEN [added |-> FALSE, err |-> "ErrAddingVote", hvs |-> hvs]
    ELSE IF vote.Type = PrevoteType
    THEN LET res == VoteSetAddVote(hvs.prevotes[vote.Round], vote) IN
         [added |-> res.added, err |-> res.err,
          hvs |-> [hvs EXCEPT !.prevotes[vote.Round] = res.vs]]
    ELSE LET res == VoteSetAddVote(hvs.precommits[vote.Round], vote) IN
         [added |-> res.added, err |-> res.err,
          hvs |-> [hvs EXCEPT !.precommits[vote.Round] = res.vs]]

\* POLInfo: the highest tracked round whose prevotes have a +2/3 majority for
\* a value that is not nil, or -1.
PolRounds(hvs) ==
    {r \in Rounds : r <= hvs.round /\ CanMakeCommit(hvs.prevotes[r])}
POLInfo(hvs) ==
    IF PolRounds(hvs) = {} THEN 0 - 1
    ELSE CHOOSE r \in PolRounds(hvs) : \A q \in PolRounds(hvs) : q <= r


\* ------------------------------------------------------------------- Core
\* The timeoutInfo of the armed timeout of the ticker; NoTimeout: none armed.
NoTimeout == [Height |-> 0, Round |-> 0, Step |-> 0]

\* The nil *VoteSet of LastCommit.
NoLastCommit == [ok |-> FALSE, round |-> 0, votes |-> EmptyVoteSet]

\* NewCore: the zero RoundState. app is the committee's AppState, committed
\* the Commit records handed to the committee, out the votes signed by the
\* handler that is running, panic the sanity check that ended the core.
NewCore ==
    [Height |-> 0, Round |-> 0, Step |-> 0,
     Proposal |-> NoVote, LockedRound |-> 0, LockedProposal |-> NoVote,
     CommitRound |-> 0, lastCommittedData |-> NilData,
     Votes |-> NoVotes, LastCommit |-> NoLastCommit,
     hasRecvCommitRecords |-> FALSE, inFetch |-> FALSE,
     timer |-> NoTimeout,
     app |-> [LastHeight |-> 0, LastProposedData |-> NilData],
     committed |-> {}, out |-> <<>>, panic |-> ""]

PanicSanity(c, site) == [c EXCEPT !.panic = site]

updateRoundStep(c, round, step) ==
    [c EXCEPT !.Round = round, !.Step = step, !.inFetch = FALSE]

scheduleTimeout(c, height, round, step) ==
    [c EXCEPT !.timer = [Height |-> height, Round |-> round, Step |-> step]]

scheduleRound0(c) == scheduleTimeout(c, c.Height, 0, RoundStepNewHeight)

\* sendInternalMessage and BroadCast of a vote signed by n.
signAddVote(n, c, vote) ==
    IF ~IsValidator(n) THEN c
    ELSE [c EXCEPT !.out = Append(@, [vote EXCEPT !.Address = n, !.Sig = TRUE])]

\* An updateToAppState that leaves the lock as it is.
updateToAppStateKeepsLock(c, appState) ==
    IF c.panic # "" THEN c
    ELSE IF c.CommitRound > -1 /\ 0 < c.Height /\ c.Height > appState.LastHeight
    THEN PanicSanity(c, "updateToAppState: height")
    ELSE IF c.CommitRound > -1 /\ c.Votes.ok
            /\ ~HasTwoThirdsMajority(Precommits(c.Votes, c.CommitRound))
    THEN PanicSanity(c, "updateToAppState: no +2/3")
    ELSE LET lastPrecommits ==
                 IF c.CommitRound > -1 /\ c.Votes.ok
                 THEN [ok |-> TRUE, round |-> c.CommitRound,
                       votes |-> Precommits(c.Votes, c.CommitRound)]
                 ELSE NoLastCommit
         IN [c EXCEPT !.Height = appState.LastHeight + 1,
                      !.Round = 0, !.Step = RoundStepNewHeight, !.inFetch = FALSE,
                      !.Proposal = NoVote,
                      !.CommitRound = 0 - 1,
                      !.LastCommit = lastPrecommits,
                      !.lastCommittedData = appState.LastProposedData,
                      !.Votes = NewHeightVoteSet(appState.LastHeight + 1)]

updateToAppState(c, appState) ==
    IF c.panic # "" THEN c
    ELSE IF c.CommitRound > -1 /\ 0 < c.Height /\ c.Height > appState.LastHeight
    THEN PanicSanity(c, "updateToAppState: height")
    ELSE IF c.CommitRound > -1 /\ c.Votes.ok
            /\ ~HasTwoThirdsMajority(Precommits(c.Votes, c.CommitRound))
    THEN PanicSanity(c, "updateToAppState: no +2/3")
    ELSE LET lastPrecommits ==
                 IF c.CommitRound > -1 /\ c.Votes.ok
                 THEN [ok |-> TRUE, round |-> c.CommitRound,
                       votes |-> Precommits(c.Votes, c.CommitRound)]
                 ELSE NoLastCommit
         IN [c EXCEPT !.Height = appState.LastHeight + 1,
                      !.Round = 0, !.Step = RoundStepNewHeight, !.inFetch = FALSE,
                      !.Proposal = NoVote,
                      !.LockedRound = 0 - 1, !.LockedProposal = NoVote,
                      !.CommitRound = 0 - 1,
                      !.LastCommit = lastPrecommits,
                      !.lastCommittedData = appState.LastProposedData,
                      !.Votes = NewHeightVoteSet(appState.LastHeight + 1)]

enterPrevoteFetch(c, height, round) ==
    scheduleTimeout(updateRoundStep(c, round, RoundStepPrevoteFetch),
                    height, round, RoundStepPrevoteFetch)

enterPrecommitFetch(c, height, round) ==
    scheduleTimeout(updateRoundStep(c, round, RoundStepPrecommitFetch),
                    height, round, RoundStepPrecommitFetch)

\* A doPrevote that looks at the Proposal before the lock.
PrevoteDataProposalFirst(c) ==
    IF c.Proposal # NoVote /\ ValidateProposal(c.Proposal.Proposed)
    THEN c.Proposal.Proposed
    ELSE IF c.LockedRound >= 0 /\ c.LockedProposal # NoVote
    THEN c.LockedProposal.Proposed
    ELSE NilData

\* The value doPrevote votes for (byzantinePrevote, for tests only, is nil).
PrevoteData(c) ==
    IF c.LockedRound >= 0 /\ c.LockedProposal # NoVote
    THEN c.LockedProposal.Proposed
    ELSE IF c.Proposal # NoVote /\ ValidateProposal(c.Proposal.Proposed)
    THEN c.Proposal.Proposed
    ELSE NilData

doPrevote(n, c, height, round) ==
    signAddVote(n, c, Vote(PrevoteType, c.Height, c.Round, PrevoteData(c),
                           c.lastCommittedData, n))

\* enterPrevote without its precondition check.
enterPrevoteUnguarded(n, c, height, round) ==
    IF c.panic # "" THEN c
    ELSE enterPrevoteFetch(
             updateRoundStep(doPrevote(n, c, height, round), round, RoundStepPrevote),
             height, round)

enterPrevote(n, c, height, round) ==
    IF c.panic # "" THEN c
    ELSE IF c.Height # height \/ round < c.Round
            \/ (c.Round = round /\ RoundStepPrevote <= c.Step)
    THEN c
    ELSE enterPrevoteFetch(
             updateRoundStep(doPrevote(n, c, height, round), round, RoundStepPrevote),
             height, round)

isReadyToPrevote(c) == c.Proposal # NoVote \/ c.LockedRound >= 0

\* A doPropose that asks the committee also when the core is locked.
doProposeFresh(n, c, height, round) ==
    LET proposal == Vote(ProposalType, height, round, DecidesProposal(n),
                         c.lastCommittedData, n)
    IN [signAddVote(n, c, proposal) EXCEPT !.Proposal = proposal]

doPropose(n, c, height, round) ==
    LET data == IF c.LockedRound > -1 /\ c.LockedProposal # NoVote
                THEN c.LockedProposal.Proposed
                ELSE DecidesProposal(n)
        proposal == Vote(ProposalType, height, round, data, c.lastCommittedData, n)
    IN [signAddVote(n, c, proposal) EXCEPT !.Proposal = proposal]

enterPropose(n, c, height, round) ==
    IF c.panic # "" THEN c
    ELSE IF c.Height # height \/ round < c.Round
            \/ (c.Round = round /\ RoundStepPropose <= c.Step)
    THEN c
    ELSE LET c1 == scheduleTimeout(c, height, round, RoundStepPropose)
             c2 == IF IsValidator(n) /\ GetCurrentProposer(c1.Round) = n
                   THEN doPropose(n, c1, height, round)
                   ELSE c1
             \* the deferred function
             c3 == updateRoundStep(c2, round, RoundStepPropose)
         IN IF isReadyToPrevote(c3) THEN enterPrevote(n, c3, height, c3.Round) ELSE c3

\* An enterNewRound that takes the Proposal along to the new round.
enterNewRoundKeepsProposal(n, c, height, round) ==
    IF c.panic # "" THEN c
    ELSE IF c.Height # height \/ round < c.Round
            \/ (c.Round = round /\ c.Step # RoundStepNewHeight)
    THEN c
    ELSE LET c1 == updateRoundStep(c, round, RoundStepNewRound)
             c3 == [c1 EXCEPT !.Votes = SetRound(@, round + 1)]
         IN enterPropose(n, c3, height, round)

\* An enterNewRound that enters again the round the core is in.
enterNewRoundAgain(n, c, height, round) ==
    IF c.panic # "" THEN c
    ELSE IF c.Height # height \/ round < c.Round
    THEN c
    ELSE LET c1 == updateRoundStep(c, round, RoundStepNewRound)
             c2 == IF round = 0 THEN c1 ELSE [c1 EXCEPT !.Proposal = NoVote]
             c3 == [c2 EXCEPT !.Votes = SetRound(@, round + 1)]
         IN enterPropose(n, c3, height, round)

enterNewRound(n, c, height, round) ==
    IF c.panic # "" THEN c
    ELSE IF c.Height # height \/ round < c.Round
            \/ (c.Round = round /\ c.Step # RoundStepNewHeight)
    THEN c
    ELSE LET c1 == updateRoundStep(c, round, RoundStepNewRound)
             c2 == IF round = 0 THEN c1 ELSE [c1 EXCEPT !.Proposal = NoVote]
             c3 == [c2 EXCEPT !.Votes = SetRound(@, round + 1)]
         IN enterPropose(n, c3, height, round)

\* enterPrevoteWait without its precondition check.
enterPrevoteWaitUnguarded(n, c, height, round) ==
    IF c.panic # "" THEN c
    ELSE IF ~HasTwoThirdsAny(Prevotes(c.Votes, round))
    THEN PanicSanity(c, "enterPrevoteWait")
    ELSE updateRoundStep(scheduleTimeout(c, height, round, RoundStepPrevoteWait),
                         round, RoundStepPrevoteWait)

enterPrevoteWait(n, c, height, round) ==
    IF c.panic # "" THEN c
    ELSE IF c.Height # height \/ round < c.Round
            \/ (c.Round = round /\ RoundStepPrevoteWait <= c.Step)
    THEN c
    ELSE IF ~HasTwoThirdsAny(Prevotes(c.Votes, round))
    THEN PanicSanity(c, "enterPrevoteWait")
    ELSE updateRoundStep(scheduleTimeout(c, height, round, RoundStepPrevoteWait),
                         round, RoundStepPrevoteWait)

\* The body of enterPrecommit, before its deferred function.
\* A precommit for the proposal whether or not the prevotes of the round
\* have a +2/3 majority for it.
precommitDecisionNoPolka(n, c, height, round) ==
    LET precommit == Vote(PrecommitType, height, round, NilData, c.lastCommittedData, n)
    IN IF c.Proposal # NoVote /\ ValidateProposal(c.Proposal.Proposed)
       THEN signAddVote(n, [c EXCEPT !.LockedRound = round, !.LockedProposal = c.Proposal],
                        [precommit EXCEPT !.Proposed = c.Proposal.Proposed])
       ELSE signAddVote(n, c, precommit)

\* An enterPrecommit that follows a polka whose proposal it lacks.
precommitDecisionFollowsPolka(n, c, height, round) ==
    LET prevotes == Prevotes(c.Votes, round)
        ok == HasTwoThirdsMajority(prevotes)
        polkaData == TwoThirdsMajority(prevotes)
        precommit == Vote(PrecommitType, height, round, NilData, c.lastCommittedData, n)
        unlocked == [c EXCEPT !.LockedRound = 0 - 1, !.LockedProposal = NoVote]
    IN IF ~ok THEN signAddVote(n, c, precommit)
       ELSE IF POLInfo(c.Votes) # round
       THEN PanicSanity(c, "enterPrecommit: POLRound")
       ELSE IF polkaData = NilData
       THEN signAddVote(n, IF c.LockedProposal = NoVote THEN c ELSE unlocked, precommit)
       ELSE IF c.LockedRound >= 0 /\ c.LockedProposal = NoVote
       THEN PanicSanity(c, "enterPrecommit: nil LockedProposal")
       ELSE IF c.LockedRound >= 0 /\ c.LockedProposal.Proposed = polkaData
       THEN signAddVote(n, [c EXCEPT !.LockedRound = round],
                        [precommit EXCEPT !.Proposed = polkaData])
       ELSE IF c.Proposal # NoVote /\ c.Proposal.Proposed = polkaData
       THEN signAddVote(n, [c EXCEPT !.LockedRound = round, !.LockedProposal = c.Proposal],
                        [precommit EXCEPT !.Proposed = polkaData])
       ELSE signAddVote(n, unlocked, [precommit EXCEPT !.Proposed = polkaData])

\* An enterPrecommit that gives up its lock when it finds no polka.
precommitDecisionUnlocks(n, c, height, round) ==
    LET prevotes == Prevotes(c.Votes, round)
        ok == HasTwoThirdsMajority(prevotes)
        polkaData == TwoThirdsMajority(prevotes)
        precommit == Vote(PrecommitType, height, round, NilData, c.lastCommittedData, n)
        unlocked == [c EXCEPT !.LockedRound = 0 - 1, !.LockedProposal = NoVote]
    IN IF ~ok THEN signAddVote(n, unlocked, precommit)
       ELSE IF POLInfo(c.Votes) # round
       THEN PanicSanity(c, "enterPrecommit: POLRound")
       ELSE IF polkaData = NilData
       THEN signAddVote(n, IF c.LockedProposal = NoVote THEN c ELSE unlocked, precommit)
       ELSE IF c.LockedRound >= 0 /\ c.LockedProposal = NoVote
       THEN PanicSanity(c, "enterPrecommit: nil LockedProposal")
       ELSE IF c.LockedRound >= 0 /\ c.LockedProposal.Proposed = polkaData
       THEN signAddVote(n, [c EXCEPT !.LockedRound = round],
                        [precommit EXCEPT !.Proposed = polkaData])
       ELSE IF c.Proposal # NoVote /\ c.Proposal.Proposed = polkaData
       THEN signAddVote(n, [c EXCEPT !.LockedRound = round, !.LockedProposal = c.Proposal],
                        [precommit EXCEPT !.Proposed = polkaData])
       ELSE signAddVote(n, unlocked, precommit)

\* An enterPrecommit whose relock leaves LockedRound where it was.
precommitDecisionStaleRound(n, c, height, round) ==
    LET prevotes == Prevotes(c.Votes, round)
        ok == HasTwoThirdsMajority(prevotes)
        polkaData == TwoThirdsMajority(prevotes)
        precommit == Vote(PrecommitType, height, round, NilData, c.lastCommittedData, n)
        unlocked == [c EXCEPT !.LockedRound = 0 - 1, !.LockedProposal = NoVote]
    IN IF ~ok THEN signAddVote(n, c, precommit)
       ELSE IF POLInfo(c.Votes) # round
       THEN PanicSanity(c, "enterPrecommit: POLRound")
       ELSE IF polkaData = NilData
       THEN signAddVote(n, IF c.LockedProposal = NoVote THEN c ELSE unlocked, precommit)
       ELSE IF c.LockedRound >= 0 /\ c.LockedProposal = NoVote
       THEN PanicSanity(c, "enterPrecommit: nil LockedProposal")
       ELSE IF c.LockedRound >= 0 /\ c.LockedProposal.Proposed = polkaData
       THEN signAddVote(n, c, [precommit EXCEPT !.Proposed = polkaData])
       ELSE IF c.Proposal # NoVote /\ c.Proposal.Proposed = polkaData
       THEN signAddVote(n, [c EXCEPT !.LockedRound = round, !.LockedProposal = c.Proposal],
                        [precommit EXCEPT !.Proposed = polkaData])
       ELSE signAddVote(n, unlocked, precommit)

precommitDecision(n, c, height, round) ==
    LET prevotes == Prevotes(c.Votes, round)
        ok == HasTwoThirdsMajority(prevotes)
        polkaData == TwoThirdsMajority(prevotes)
        precommit == Vote(PrecommitType, height, round, NilData, c.lastCommittedData, n)
        unlocked == [c EXCEPT !.LockedRound = 0 - 1, !.LockedProposal = NoVote]
    IN IF ~ok THEN signAddVote(n, c, precommit)
       ELSE IF POLInfo(c.Votes) # round
       THEN PanicSanity(c, "enterPrecommit: POLRound")
       ELSE IF polkaData = NilData
       THEN signAddVote(n, IF c.LockedProposal = NoVote THEN c ELSE unlocked, precommit)
       ELSE IF c.LockedRound >= 0 /\ c.LockedProposal = NoVote
       THEN PanicSanity(c, "enterPrecommit: nil LockedProposal")
       ELSE IF c.LockedRound >= 0 /\ c.LockedProposal.Proposed = polkaData
       THEN signAddVote(n, [c EXCEPT !.LockedRound = round],
                        [precommit EXCEPT !.Proposed = polkaData])
       ELSE IF c.Proposal # NoVote /\ c.Proposal.Proposed = polkaData
       THEN signAddVote(n, [c EXCEPT !.LockedRound = round, !.LockedProposal = c.Proposal],
                        [precommit EXCEPT !.Proposed = polkaData])
       ELSE signAddVote(n, unlocked, precommit)

\* An enterPrecommit that runs again in the round it has run in.
enterPrecommitAgain(n, c, height, round) ==
    IF c.panic # "" THEN c
    ELSE IF c.Height # height \/ round < c.Round
    THEN c
    ELSE LET c1 == precommitDecision(n, c, height, round)
             c2 == updateRoundStep(c1, round, RoundStepPrecommit)
         IN IF c1.panic # "" THEN c1 ELSE enterPrecommitFetch(c2, c2.Height, c2.Round)

enterPrecommit(n, c, height, round) ==
    IF c.panic # "" THEN c
    ELSE IF c.Height # height \/ round < c.Round
            \/ (c.Round = round /\ RoundStepPrecommit <= c.Step)
    THEN c
    ELSE LET c1 == precommitDecision(n, c, height, round)
             \* the deferred function
             c2 == updateRoundStep(c1, round, RoundStepPrecommit)
         IN IF c1.panic # "" THEN c1 ELSE enterPrecommitFetch(c2, c2.Height, c2.Round)

\* enterPrecommitWait with a check of the height only.
enterPrecommitWaitUnguarded(n, c, height, round) ==
    IF c.panic # "" THEN c
    ELSE IF c.Height # height
    THEN c
    ELSE IF ~HasTwoThirdsAny(Precommits(c.Votes, round))
    THEN PanicSanity(c, "enterPrecommitWait")
    ELSE updateRoundStep(scheduleTimeout(c, height, round, RoundStepPrecommitWait),
                         round, RoundStepPrecommitWait)

enterPrecommitWait(n, c, height, round) ==
    IF c.panic # "" THEN c
    ELSE IF c.Height # height \/ round < c.Round
            \/ (c.Round = round /\ RoundStepPrecommitWait <= c.Step)
    THEN c
    ELSE IF ~HasTwoThirdsAny(Precommits(c.Votes, round))
    THEN PanicSanity(c, "enterPrecommitWait")
    ELSE updateRoundStep(scheduleTimeout(c, height, round, RoundStepPrecommitWait),
                         round, RoundStepPrecommitWait)

\* A doCommit whose MakeCommit makes a record of any +2/3 majority.
doCommitAny(n, c, data) ==
    LET precommits == Precommits(c.Votes, c.CommitRound) IN
    IF data # TwoThirdsMajority(precommits)
    THEN PanicSanity(c, "doCommit: inconsistent")
    ELSE LET records == [Height |-> c.Height, Round |-> c.CommitRound,
                         ProposedData |-> TwoThirdsMajority(precommits)]
             appState == [LastHeight |-> c.Height,
                          LastProposedData |-> records.ProposedData]
             c1 == [c EXCEPT !.committed = @ \cup {records}, !.app = appState]
             c2 == updateToAppState(c1, appState)
         IN IF c2.panic # "" THEN c2
            ELSE scheduleRound0([c2 EXCEPT !.hasRecvCommitRecords = FALSE])

\* doCommit: MakeCommit, committee.Commit, GetAppState, updateToAppState.
doCommit(n, c, data) ==
    LET precommits == Precommits(c.Votes, c.CommitRound) IN
    IF ~CanMakeCommit(precommits)
    THEN PanicSanity(c, "MakeCommit")
    ELSE IF data # TwoThirdsMajority(precommits)
    THEN PanicSanity(c, "doCommit: inconsistent")
    ELSE LET records == [Height |-> c.Height, Round |-> c.CommitRound,
                         ProposedData |-> TwoThirdsMajority(precommits)]
             appState == [LastHeight |-> c.Height,
                          LastProposedData |-> records.ProposedData]
             c1 == [c EXCEPT !.committed = @ \cup {records}, !.app = appState]
             c2 == updateToAppState(c1, appState)
         IN IF c2.panic # "" THEN c2
            ELSE scheduleRound0([c2 EXCEPT !.hasRecvCommitRecords = FALSE])

enterCommit(n, c, height, commitRound) ==
    IF c.panic # "" THEN c
    ELSE IF c.Height # height \/ RoundStepCommit <= c.Step
    THEN c
    ELSE IF ~HasTwoThirdsMajority(Precommits(c.Votes, commitRound))
    THEN PanicSanity(c, "enterCommit")
    ELSE doCommit(n,
                  updateRoundStep([c EXCEPT !.CommitRound = commitRound],
                                  c.Round, RoundStepCommit),
                  TwoThirdsMajority(Precommits(c.Votes, commitRound)))


\* A defaultSetProposal that takes the proposal of any signer.
defaultSetProposalAnySigner(n, c, proposal) ==
    IF c.Proposal # NoVote THEN c
    ELSE IF proposal.Height # c.Height \/ proposal.Round # c.Round THEN c
    ELSE IF proposal.Prev # c.lastCommittedData THEN c
    ELSE IF ~proposal.Sig THEN c
    ELSE IF ValidateProposal(proposal.Proposed)
    THEN enterPrevote(n, [c EXCEPT !.Proposal = proposal], c.Height, c.Round)
    ELSE c

defaultSetProposal(n, c, proposal) ==
    IF c.Proposal # NoVote THEN c
    ELSE IF proposal.Height # c.Height \/ proposal.Round # c.Round THEN c
    ELSE IF proposal.Prev # c.lastCommittedData THEN c
    ELSE IF GetCurrentProposer(c.Round) # proposal.Address THEN c
    ELSE IF ~proposal.Sig THEN c
    ELSE IF ValidateProposal(proposal.Proposed)
    THEN enterPrevote(n, [c EXCEPT !.Proposal = proposal], c.Height, c.Round)
    ELSE c

\* An addVote whose unlock leaves the LockedProposal in place.
prevoteAddedKeepsProposal(n, c, vote, height) ==
    LET prevotes == Prevotes(c.Votes, vote.Round)
        ok == HasTwoThirdsMajority(prevotes)
        polkaData == TwoThirdsMajority(prevotes)
        c1 == IF ok /\ c.LockedProposal # NoVote /\ c.LockedRound < vote.Round
                 /\ c.LockedProposal.Proposed # polkaData
              THEN [c EXCEPT !.LockedRound = 0 - 1]
              ELSE c
        c2 == IF ok /\ polkaData # NilData /\ vote.Round = c1.Round
                 /\ c1.Proposal # NoVote /\ c1.Proposal.Proposed # polkaData
              THEN [c1 EXCEPT !.Proposal = NoVote]
              ELSE c1
    IN IF c2.Round < vote.Round /\ HasTwoThirdsAny(prevotes)
       THEN enterNewRound(n, c2, height, vote.Round)
       ELSE IF c2.Round = vote.Round /\ RoundStepPrevote <= c2.Step
       THEN IF ok THEN enterPrecommit(n, c2, height, vote.Round)
            ELSE IF HasTwoThirdsAny(prevotes)
            THEN enterPrevoteWait(n, c2, height, vote.Round)
            ELSE c2
       ELSE IF RoundStepPrevote > c2.Step /\ c2.Proposal # NoVote
       THEN enterPrevote(n, c2, height, c2.Round)
       ELSE c2

\* An addVote that does not enter Precommit on a polka.
prevoteAddedNoPrecommit(n, c, vote, height) ==
    LET prevotes == Prevotes(c.Votes, vote.Round)
        ok == HasTwoThirdsMajority(prevotes)
        polkaData == TwoThirdsMajority(prevotes)
        c1 == IF ok /\ c.LockedProposal # NoVote /\ c.LockedRound < vote.Round
                 /\ c.LockedProposal.Proposed # polkaData
              THEN [c EXCEPT !.LockedRound = 0 - 1, !.LockedProposal = NoVote]
              ELSE c
        c2 == IF ok /\ polkaData # NilData /\ vote.Round = c1.Round
                 /\ c1.Proposal # NoVote /\ c1.Proposal.Proposed # polkaData
              THEN [c1 EXCEPT !.Proposal = NoVote]
              ELSE c1
    IN IF c2.Round < vote.Round /\ HasTwoThirdsAny(prevotes)
       THEN enterNewRound(n, c2, height, vote.Round)
       ELSE IF c2.Round = vote.Round /\ RoundStepPrevote <= c2.Step
       THEN IF ~ok /\ HasTwoThirdsAny(prevotes)
            THEN enterPrevoteWait(n, c2, height, vote.Round)
            ELSE c2
       ELSE IF RoundStepPrevote > c2.Step /\ c2.Proposal # NoVote
       THEN enterPrevote(n, c2, height, c2.Round)
       ELSE c2

\* An addVote that unlocks on every polka of a round past LockedRound, also
\* on one for the locked value.
prevoteAddedUnlocksAlways(n, c, vote, height) ==
    LET prevotes == Prevotes(c.Votes, vote.Round)
        ok == HasTwoThirdsMajority(prevotes)
        polkaData == TwoThirdsMajority(prevotes)
        c1 == IF ok /\ c.LockedProposal # NoVote /\ c.LockedRound < vote.Round
              THEN [c EXCEPT !.LockedRound = 0 - 1, !.LockedProposal = NoVote]
              ELSE c
        c2 == IF ok /\ polkaData # NilData /\ vote.Round = c1.Round
                 /\ c1.Proposal # NoVote /\ c1.Proposal.Proposed # polkaData
              THEN [c1 EXCEPT !.Proposal = NoVote]
              ELSE c1
    IN IF c2.Round < vote.Round /\ HasTwoThirdsAny(prevotes)
       THEN enterNewRound(n, c2, height, vote.Round)
       ELSE IF c2.Round = vote.Round /\ RoundStepPrevote <= c2.Step
       THEN IF ok THEN enterPrecommit(n, c2, height, vote.Round)
            ELSE IF HasTwoThirdsAny(prevotes)
            THEN enterPrevoteWait(n, c2, height, vote.Round)
            ELSE c2
       ELSE IF RoundStepPrevote > c2.Step /\ c2.Proposal # NoVote
       THEN enterPrevote(n, c2, height, c2.Round)
       ELSE c2

\* addVote after a prevote was added to c.Votes.
prevoteAdded(n, c, vote, height) ==
    LET prevotes == Prevotes(c.Votes, vote.Round)
        ok == HasTwoThirdsMajority(prevotes)
        polkaData == TwoThirdsMajority(prevotes)
        c1 == IF ok /\ c.LockedProposal # NoVote /\ c.LockedRound < vote.Round
                 /\ c.LockedProposal.Proposed # polkaData
              THEN [c EXCEPT !.LockedRound = 0 - 1, !.LockedProposal = NoVote]
              ELSE c
        c2 == IF ok /\ polkaData # NilData /\ vote.Round = c1.Round
                 /\ c1.Proposal # NoVote /\ c1.Proposal.Proposed # polkaData
              THEN [c1 EXCEPT !.Proposal = NoVote]
              ELSE c1
    IN IF c2.Round < vote.Round /\ HasTwoThirdsAny(prevotes)
       THEN enterNewRound(n, c2, height, vote.Round)
       ELSE IF c2.Round = vote.Round /\ RoundStepPrevote <= c2.Step
       THEN IF ok THEN enterPrecommit(n, c2, height, vote.Round)
            ELSE IF HasTwoThirdsAny(prevotes)
            THEN enterPrevoteWait(n, c2, height, vote.Round)
            ELSE c2
       ELSE IF RoundStepPrevote > c2.Step /\ c2.Proposal # NoVote
       THEN enterPrevote(n, c2, height, c2.Round)
       ELSE c2

\* addVote with a +2/3 precommit majority, as it calls enterCommit.
beforeEnterCommit(n, c, vote, height) ==
    enterPrecommit(n, enterNewRound(n, c, height, vote.Round), height, vote.Round)

\* addVote after a precommit was added to c.Votes.
precommitAdded(n, c, vote, height) ==
    LET precommits == Precommits(c.Votes, vote.Round) IN
    IF HasTwoThirdsMajority(precommits)
    THEN LET c2 == beforeEnterCommit(n, c, vote, height)
             c3 == enterCommit(n, c2, height, vote.Round)
         IN IF SkipTimeoutCommit /\ HasAll(precommits)
            THEN enterNewRound(n, c3, c3.Height, 0)
            ELSE c3
    ELSE IF c.Round <= vote.Round /\ HasTwoThirdsAny(precommits)
    THEN enterPrecommitWait(n, enterNewRound(n, c, height, vote.Round),
                            height, vote.Round)
    ELSE c

\* LastCommit.AddVote: the precommit set of (Height-1, LastCommit.round).
lastCommitAddVote(c, vote) ==
    IF vote.Round # c.LastCommit.round \/ vote.Type # PrecommitType
    THEN [added |-> FALSE, err |-> "ErrAddingVote", vs |-> c.LastCommit.votes]
    ELSE VoteSetAddVote(c.LastCommit.votes, vote)

\* An addVote that counts a conflicting vote for its new value.
addVoteCountsConflict(n, c, vote) ==
    IF c.panic # "" THEN c
    ELSE IF vote.Height + 1 = c.Height
    THEN IF ~(c.Step = RoundStepNewHeight /\ vote.Type = PrecommitType)
            \/ ~c.LastCommit.ok
         THEN c
         ELSE LET res == lastCommitAddVote(c, vote)
                  c1 == [c EXCEPT !.LastCommit.votes = res.vs]
              IN IF ~res.added THEN c
                 ELSE IF SkipTimeoutCommit /\ HasAll(c1.LastCommit.votes)
                 THEN enterNewRound(n, c1, c1.Height, 0)
                 ELSE c1
    ELSE IF vote.Height # c.Height THEN c
    ELSE IF vote.Type = ProposalType THEN defaultSetProposal(n, c, vote)
    ELSE LET height == c.Height
             res == HeightVoteSetAddVote(c.Votes, vote)
             c1 == IF res.err = "ErrVoteConflictingVotes"
                   THEN IF vote.Type = PrevoteType
                        THEN [c EXCEPT !.Votes.prevotes[vote.Round][vote.Address] =
                                           vote.Proposed]
                        ELSE [c EXCEPT !.Votes.precommits[vote.Round][vote.Address] =
                                           vote.Proposed]
                   ELSE [c EXCEPT !.Votes = res.hvs]
         IN IF ~res.added THEN c
            ELSE IF vote.Type = PrevoteType
            THEN prevoteAdded(n, c1, vote, height)
            ELSE precommitAdded(n, c1, vote, height)

\* An addVote that takes a precommit of the height before in every step.
addVoteAnyStep(n, c, vote) ==
    IF c.panic # "" THEN c
    ELSE IF vote.Height + 1 = c.Height
    THEN IF vote.Type # PrecommitType \/ ~c.LastCommit.ok
         THEN c
         ELSE LET res == lastCommitAddVote(c, vote)
                  c1 == [c EXCEPT !.LastCommit.votes = res.vs]
              IN IF ~res.added THEN c
                 ELSE IF SkipTimeoutCommit /\ HasAll(c1.LastCommit.votes)
                 THEN enterNewRound(n, c1, c1.Height, 0)
                 ELSE c1
    ELSE IF vote.Height # c.Height THEN c
    ELSE IF vote.Type = ProposalType THEN defaultSetProposal(n, c, vote)
    ELSE LET height == c.Height
             res == HeightVoteSetAddVote(c.Votes, vote)
             c1 == [c EXCEPT !.Votes = res.hvs]
         IN IF ~res.added THEN c
            ELSE IF vote.Type = PrevoteType
            THEN prevoteAdded(n, c1, vote, height)
            ELSE precommitAdded(n, c1, vote, height)

addVote(n, c, vote) ==
    IF c.panic # "" THEN c
    ELSE IF vote.Height + 1 = c.Height
    THEN IF ~(c.Step = RoundStepNewHeight /\ vote.Type = PrecommitType)
            \/ ~c.LastCommit.ok
         THEN c
         ELSE LET res == lastCommitAddVote(c, vote)
                  c1 == [c EXCEPT !.LastCommit.votes = res.vs]
              IN IF ~res.added THEN c
                 ELSE IF SkipTimeoutCommit /\ HasAll(c1.LastCommit.votes)
                 THEN enterNewRound(n, c1, c1.Height, 0)
                 ELSE c1
    ELSE IF vote.Height # c.Height THEN c
    ELSE IF vote.Type = ProposalType THEN defaultSetProposal(n, c, vote)
    ELSE LET height == c.Height
             res == HeightVoteSetAddVote(c.Votes, vote)
             c1 == [c EXCEPT !.Votes = res.hvs]
         IN IF ~res.added THEN c
            ELSE IF vote.Type = PrevoteType
            THEN prevoteAdded(n, c1, vote, height)
            ELSE precommitAdded(n, c1, vote, height)

tryAddVote(n, c, vote) == addVote(n, c, vote)

RECURSIVE tryAddVotes(_, _, _)
tryAddVotes(n, c, votes) ==
    IF votes = <<>> THEN c
    ELSE tryAddVotes(n, tryAddVote(n, c, Head(votes)), Tail(votes))


\* --------------------------------------------------------------- handlers
\* handleMsg of a *message.Vote.
handleVote(n, c, vote) ==
    IF ~IsValidator(n) THEN c ELSE tryAddVote(n, c, vote)

\* handleMsg of a *message.Commit of height `height` with `precommits`.
handleCommit(n, c, height, precommits) ==
    LET c1 == IF height = c.Height THEN [c EXCEPT !.hasRecvCommitRecords = TRUE] ELSE c
    IN IF height >= c.Height THEN tryAddVotes(n, c1, precommits) ELSE c1

\* Whether handleFetchRsp merges the votes of a response of (height, round).
fetchRspAccepted(c, height, round) ==
    /\ c.Height = height /\ c.Round <= round
    /\ c.Step \in {RoundStepPrevoteFetch, RoundStepPrecommitFetch}

\* A handleFetchRsp that merges the votes in every step.
handleFetchRspAnyStep(n, c, height, round, missingVotes) ==
    IF c.Height = height /\ c.Round <= round THEN tryAddVotes(n, c, missingVotes) ELSE c

handleFetchRsp(n, c, height, round, missingVotes) ==
    IF fetchRspAccepted(c, height, round) THEN tryAddVotes(n, c, missingVotes) ELSE c

\* handleFetch answers the peer and leaves the Core as it is.
handleFetch(n, c, height, round, type) == c

fetchMissingVotes(n, c) ==
    IF c.Step \in {RoundStepPrevoteFetch, RoundStepPrecommitFetch}
    THEN [scheduleTimeout(c, c.Height, c.Round, c.Step) EXCEPT !.inFetch = TRUE]
    ELSE c

\* handleTimeout(ti, rs); rs is the RoundState read by receiveRoutine.
handleTimeout(n, c, ti) ==
    IF ti.Height # c.Height \/ ti.Round < c.Round
       \/ (ti.Round = c.Round /\ ti.Step < c.Step)
    THEN c
    ELSE CASE ti.Step = RoundStepNewHeight -> enterNewRound(n, c, ti.Height, 0)
           [] ti.Step = RoundStepNewRound -> enterPropose(n, c, ti.Height, 0)
           [] ti.Step = RoundStepPropose -> enterPrevote(n, c, ti.Height, ti.Round)
           [] ti.Step = RoundStepPrevoteFetch -> fetchMissingVotes(n, c)
           [] ti.Step = RoundStepPrevoteWait -> enterPrecommit(n, c, ti.Height, ti.Round)
           [] ti.Step = RoundStepPrecommitFetch -> fetchMissingVotes(n, c)
           [] ti.Step = RoundStepPrecommitWait ->
                enterNewRound(n, enterPrecommit(n, c, ti.Height, ti.Round),
                              ti.Height, ti.Round + 1)
           [] OTHER -> PanicSanity(c, "Invalid timeout step")

\* The body of Start: a new ticker, GetAppState, updateToAppState,
\* scheduleRound0.
startCore(c) ==
    scheduleRound0(updateToAppState([c EXCEPT !.timer = NoTimeout, !.Votes = NoVotes],
                                    c.app))

\* The body of Stop: the ticker is stopped and the receive routine ends.
stopCore(c) == [c EXCEPT !.timer = NoTimeout]

\* ------------------------------------------------- the goroutines of a Core
\* The goroutines that call Start and Stop.
Callers == 1..2

\* The (height, round, step) of a timeout, in their lexicographic order.
Keys == 1..2

NoTicket == [id |-> 0, key |-> 0]

\* NewTimeoutTicker and its Start.
NewTimeoutTicker == [running |-> TRUE, armed |-> NoTicket, tock |-> NoTicket]

\* NewCore: the gate is open, the core is stopped, msgQueue is made. The
\* fields below handled are a record of what has happened: the messages
\* handled and the fires observed, in their order, the messages left at the
\* return of a Stop and the timeouts that were armed when another was
\* scheduled.
NewRuntime ==
    [inStartOrStop |-> 0, started |-> 0, done |-> "nil", tasks |-> 0,
     pc |-> [t \in Callers |-> "idle"], ret |-> [t \in Callers |-> ""],
     calls |-> 0,
     msgQueue |-> <<>>, senders |-> {}, peer |-> "idle", msgs |-> 0,
     received |-> {}, fallback |-> FALSE,
     timeoutTicker |-> [running |-> FALSE, armed |-> NoTicket, tock |-> NoTicket],
     ticks |-> 0,
     handled |-> <<>>, observed |-> <<>>, stale |-> {}, superseded |-> {}]

Range(q) == {q[i] : i \in 1..Len(q)}

\* The timer in flight, if any, with the key of the timeout that is
\* scheduled next.
Superseded(r, key) ==
    IF r.timeoutTicker.armed # NoTicket
    THEN {[id |-> r.timeoutTicker.armed.id, key |-> r.timeoutTicker.armed.key, by |-> key]}
    ELSE {}

\* A ScheduleTimeout that leaves a timer in flight alone unless the new
\* timeout is later in the order of (height, round, step).
ScheduleTimeoutIfNewer(r, key) ==
    [r EXCEPT !.ticks = @ + 1,
              !.superseded = @ \cup Superseded(r, key),
              !.timeoutTicker.armed =
                  IF @ # NoTicket /\ key <= @.key THEN @
                  ELSE [id |-> r.ticks + 1, key |-> key]]

\* TimeoutTicker.ScheduleTimeout: cancels the timer in flight and arms a new
\* one.
ScheduleTimeout(r, key) ==
    [r EXCEPT !.ticks = @ + 1,
              !.superseded = @ \cup Superseded(r, key),
              !.timeoutTicker.armed = [id |-> r.ticks + 1, key |-> key]]

\* A sendInternalMessage that gives up when msgQueue is full.
sendInternalMessageOrDrop(r, from) ==
    LET r1 == [r EXCEPT !.msgs = @ + 1,
                        !.received = IF from = "peer" THEN @ \cup {r.msgs + 1} ELSE @]
    IN IF Len(r.msgQueue) < msgQueueSize
       THEN [r1 EXCEPT !.msgQueue = Append(@, r.msgs + 1)]
       ELSE [r1 EXCEPT !.fallback = TRUE]

\* sendInternalMessage(mi): on msgQueue when there is room, otherwise left to
\* a goroutine. The message is numbered as it is sent.
sendInternalMessage(r, from) ==
    LET r1 == [r EXCEPT !.msgs = @ + 1,
                        !.received = IF from = "peer" THEN @ \cup {r.msgs + 1} ELSE @]
    IN IF Len(r.msgQueue) < msgQueueSize
       THEN [r1 EXCEPT !.msgQueue = Append(@, r.msgs + 1)]
       ELSE [r1 EXCEPT !.senders = @ \cup {r.msgs + 1}, !.fallback = TRUE]

\* A gate that lets every caller in.
enterGateAlways(r, t, op) ==
    [r EXCEPT !.inStartOrStop = 1, !.pc[t] = op, !.ret[t] = "", !.calls = @ + 1]

\* The first lines of Start and Stop: CompareAndSwapInt32(&c.inStartOrStop,
\* 0, 1), or the error.
enterGate(r, t, op) ==
    IF r.inStartOrStop = 0
    THEN [r EXCEPT !.inStartOrStop = 1, !.pc[t] = op, !.ret[t] = "", !.calls = @ + 1]
    ELSE [r EXCEPT !.ret[t] = "gobft is in the process of start or stop",
                   !.calls = @ + 1]

\* The deferred StoreInt32(&c.inStartOrStop, 0) and the return.
leaveGate(r, t, err) ==
    [r EXCEPT !.inStartOrStop = 0, !.pc[t] = "idle", !.ret[t] = err]

\* Start, from the check of started to the go statement.
startBody(r, t) ==
    IF r.started = 1 THEN leaveGate(r, t, "gobft already started")
    ELSE [r EXCEPT !.done = "open", !.timeoutTicker = NewTimeoutTicker,
                   !.tasks = @ + 1, !.pc[t] = "StartSpawned"]

\* Start, from scheduleRound0 to the return.
startReturn(r, t) ==
    leaveGate([ScheduleTimeout(r, 1) EXCEPT !.started = 1], t, "nil")

\* Stop, from the check of started to close(c.done).
stopBody(r, t) ==
    IF r.started = 0 THEN leaveGate(r, t, "gobft already stopped")
    ELSE [r EXCEPT !.timeoutTicker.running = FALSE,
                   !.timeoutTicker.armed = NoTicket,
                   !.done = "closed", !.pc[t] = "StopWait"]

\* Stop, after c.Wait().
stopReturn(r, t) ==
    leaveGate([r EXCEPT !.started = 0,
                        !.stale = @ \cup Range(r.msgQueue) \cup r.senders],
              t, "nil")

\* What a handler does besides changing RoundState: it may schedule a
\* timeout and it may sign a vote, which goes to msgQueue.
handlerEffects(r, key, emit) ==
    LET r1 == IF key \in Keys /\ r.ticks < MaxTicks THEN ScheduleTimeout(r, key) ELSE r
    IN IF emit /\ r1.msgs < MaxMsgs THEN sendInternalMessage(r1, "core") ELSE r1

\* receiveRoutine: case mi = <-c.msgQueue.
receiveMsg(r, key, emit) ==
    handlerEffects([r EXCEPT !.handled = Append(@, Head(r.msgQueue)),
                             !.msgQueue = Tail(@)], key, emit)

\* receiveRoutine: case ti := <-c.timeoutTicker.Chan().
receiveTock(r, key, emit) ==
    handlerEffects([r EXCEPT !.observed = Append(@, r.timeoutTicker.tock.id),
                             !.timeoutTicker.tock = NoTicket], key, emit)

\* ------------------------------------------------------------ environment
Correct == committee.correct
\* The committee members that do not run this driver: they may sign anything.
Faulty == {v \in Vals : IsValidator(v)} \ Correct

Heights == 1..MaxHeight

\* The prevotes and precommits the faulty validators may sign.
FaultyRounds == committee.faultyRounds
FaultyData == committee.faultyData

FaultyVotes ==
    {Vote(t, h, r, p, NilData, a) :
        t \in {PrevoteType, PrecommitType}, h \in Heights, r \in FaultyRounds,
        p \in FaultyData, a \in Faulty}

\* The proposals a faulty validator may sign for round r: any value when it
\* is the proposer of r, also with a base or a signature that is wrong, and
\* one proposal when it is not.
ProposalsOf(a, r) ==
    IF a = GetCurrentProposer(r)
    THEN UNION {{Vote(ProposalType, h, r, X, X, a),
                 [Vote(ProposalType, h, r, X, NilData, a) EXCEPT !.Sig = FALSE]}
                \cup {Vote(ProposalType, h, r, p, NilData, a) : p \in Data} :
                    h \in Heights}
    ELSE {Vote(ProposalType, h, r, X, NilData, a) : h \in Heights}

FaultyProposals == UNION {ProposalsOf(a, r) : a \in Faulty, r \in FaultyRounds}

\* Every vote a faulty peer can deliver.
Deliverable == FaultyVotes \cup FaultyProposals

\* The votes of one kind a message of a faulty peer carries: those of some
\* faulty validators for one value, in the order of their signers.
RECURSIVE VotesOf(_, _, _, _, _)
VotesOf(signers, type, height, round, proposed) ==
    IF signers = {} THEN <<>>
    ELSE LET a == CHOOSE x \in signers : \A y \in signers : x <= y
         IN <<Vote(type, height, round, proposed, NilData, a)>>
            \o VotesOf(signers \ {a}, type, height, round, proposed)

Signers == SUBSET Faulty \ {{}}

\* The votes of faulty validators in the vote sets of c.
FaultySlots(c) ==
    {<<t, r, a>> \in {PrevoteType, PrecommitType} \X Rounds \X Faulty :
        a \in DOMAIN (IF t = PrevoteType THEN c.Votes.prevotes[r]
                                          ELSE c.Votes.precommits[r])}
\* Whether the faulty validators stay within MaxFaultyVotes when c is reached.
WithinBudget(c) == Cardinality(FaultySlots(c)) <= committee.maxFaultyVotes

\* ---------------------------------------------------------------- actions
Running(n) == n \in Correct /\ started[n] /\ core[n].panic = ""
\* The heights past MaxHeight are not explored.
Working(n) == Running(n) /\ core[n].Height <= MaxHeight

\* A handler ends: its votes are on the network.
Flush(n, c) ==
    /\ WithinBudget(c)
    /\ core' = [core EXCEPT ![n] = [c EXCEPT !.out = <<>>]]
    /\ net' = [net EXCEPT ![n] = @ \o c.out]

Start(n) ==
    /\ n \in Correct /\ ~started[n] /\ core[n].panic = ""
    /\ Flush(n, startCore(core[n]))
    /\ started' = [started EXCEPT ![n] = TRUE]
    /\ UNCHANGED <<stops, pos, committee, rt>>

\* Stop is called at most MaxStops times.
Stop(n) ==
    /\ Running(n)
    /\ stops < MaxStops
    /\ Flush(n, stopCore(core[n]))
    /\ started' = [started EXCEPT ![n] = FALSE]
    /\ stops' = stops + 1
    /\ UNCHANGED <<pos, committee, rt>>

\* The application moves on while the core is stopped.
AppAdvance(n) ==
    /\ n \in Correct /\ ~started[n] /\ core[n].panic = ""
    /\ core[n].app.LastHeight < MaxHeight
    /\ core' = [core EXCEPT ![n].app =
                   [LastHeight |-> @.LastHeight + 1, LastProposedData |-> X]]
    /\ UNCHANGED <<started, stops, net, pos, committee, rt>>

\* receiveRoutine takes from msgQueue the next vote validator s has signed:
\* the one put there by sendInternalMessage when s is n, the one broadcast
\* by s when s is a peer.
RecvSigned(n, s) ==
    /\ Working(n) /\ s \in Correct
    /\ pos[n][s] < Len(net[s])
    /\ Flush(n, handleVote(n, core[n], net[s][pos[n][s] + 1]))
    /\ pos' = [pos EXCEPT ![n][s] = @ + 1]
    /\ UNCHANGED <<started, stops, committee, rt>>

RecvOwnVote(n) == RecvSigned(n, n)

RecvPeerVote(n) == \E s \in Correct \ {n} : RecvSigned(n, s)

\* receiveRoutine takes a vote a faulty peer has sent.
RecvVote(n) ==
    /\ Working(n)
    /\ \E vote \in Deliverable : Flush(n, handleVote(n, core[n], vote))
    /\ UNCHANGED <<started, stops, pos, committee, rt>>

RecvCommit(n) ==
    /\ Working(n)
    /\ \E h \in Heights, r \in FaultyRounds, p \in FaultyData, signers \in Signers :
         Flush(n, handleCommit(n, core[n], h, VotesOf(signers, PrecommitType, h, r, p)))
    /\ UNCHANGED <<started, stops, pos, committee, rt>>

RecvFetchVotesRsp(n) ==
    /\ Working(n)
    /\ \E t \in {PrevoteType, PrecommitType}, h \in Heights, r \in FaultyRounds,
          p \in FaultyData, signers \in Signers :
         Flush(n, handleFetchRsp(n, core[n], h, r, VotesOf(signers, t, h, r, p)))
    /\ UNCHANGED <<started, stops, pos, committee, rt>>

RecvFetchVotesReq(n) ==
    /\ Working(n)
    /\ \E t \in {PrevoteType, PrecommitType}, h \in Heights, r \in 0..MaxRound :
         Flush(n, handleFetch(n, core[n], h, r, t))
    /\ UNCHANGED <<started, stops, pos, committee, rt>>

\* The armed timeout fires and receiveRoutine handles it.
Timeout(n) ==
    /\ Working(n)
    /\ core[n].timer # NoTimeout
    /\ ~(core[n].timer.Step = RoundStepPrecommitWait /\ core[n].timer.Round >= MaxRound)
    /\ Flush(n, handleTimeout(n, [core[n] EXCEPT !.timer = NoTimeout], core[n].timer))
    /\ UNCHANGED <<started, stops, pos, committee, rt>>

\* ---------------------------------------------------------- specifications
\* One correct validator of power 1 next to two faulty ones of power 1 and 2.
SoloCommittee ==
    [power |-> <<1, 1, 2, 0>>, proposers |-> <<2, 1>>, skipTimeoutCommit |-> TRUE,
     correct |-> {1}, maxFaultyVotes |-> SoloFaultyVotes,
     faultyRounds |-> 0..MaxRound, faultyData |-> Data]

\* The same committee, for a core that peers send Commit and FetchVotes
\* messages.
SyncCommittee ==
    [power |-> <<1, 1, 2, 0>>, proposers |-> <<2, 1>>, skipTimeoutCommit |-> TRUE,
     correct |-> {1}, maxFaultyVotes |-> SyncFaultyVotes,
     faultyRounds |-> 0..MaxRound, faultyData |-> Data]

\* A core that is stopped and started again, next to one faulty validator of
\* power 3.
LifeCommittee ==
    [power |-> <<1, 0, 3, 0>>, proposers |-> <<3, 1>>, skipTimeoutCommit |-> FALSE,
     correct |-> {1}, maxFaultyVotes |-> LifeFaultyVotes,
     faultyRounds |-> 0..MaxRound, faultyData |-> Data]

\* Two correct validators with 7/10 of the power and a faulty one with 3/10,
\* which proposes in round 0.
NetCommittee ==
    [power |-> <<5, 2, 3, 0>>, proposers |-> <<3, 2>>, skipTimeoutCommit |-> TRUE,
     correct |-> {1, 2}, maxFaultyVotes |-> NetFaultyVotes,
     faultyRounds |-> {0}, faultyData |-> {X}]

\* The committee of the one correct validator with the faulty validators
\* proposing in every round.
SkipCommittee ==
    [power |-> <<1, 1, 2, 0>>, proposers |-> <<2, 3>>, skipTimeoutCommit |-> TRUE,
     correct |-> {1}, maxFaultyVotes |-> SoloFaultyVotes,
     faultyRounds |-> 0..MaxRound, faultyData |-> Data]

\* Four correct validators of equal power; validator 1 proposes in round 0.
HappyCommittee ==
    [power |-> <<1, 1, 1, 1>>, proposers |-> <<1, 2>>, skipTimeoutCommit |-> TRUE,
     correct |-> Vals, maxFaultyVotes |-> 0,
     faultyRounds |-> {}, faultyData |-> {}]

InitCores ==
    /\ core = [n \in Correct |-> NewCore]
    /\ started = [n \in Correct |-> FALSE]
    /\ stops = 0
    /\ net = [n \in Correct |-> <<>>]
    /\ pos = [n \in Correct |-> [s \in Correct |-> 0]]
    /\ rt = NewRuntime

Init == committee = SoloCommittee /\ InitCores

Next ==
    \E n \in Vals :
        \/ Start(n)
        \/ RecvOwnVote(n)
        \/ RecvVote(n)
        \/ Timeout(n)

Spec == Init /\ [][Next]_vars

InitSkip == committee = SkipCommittee /\ InitCores

SpecSkip == InitSkip /\ [][Next]_vars

\* The core has left the heights that are explored: it still takes the
\* votes of the height before and starts round 0.
Lingering(n) == Running(n) /\ core[n].Height = MaxHeight + 1

\* receiveRoutine takes a vote the core has signed at the height before.
RecvLateOwnVote(n) ==
    /\ Lingering(n)
    /\ pos[n][n] < Len(net[n])
    /\ Flush(n, handleVote(n, core[n], net[n][pos[n][n] + 1]))
    /\ pos' = [pos EXCEPT ![n][n] = @ + 1]
    /\ UNCHANGED <<started, stops, committee, rt>>

\* receiveRoutine takes a vote of a faulty peer for a height before.
RecvLateVote(n) ==
    /\ Lingering(n)
    /\ \E vote \in Deliverable : Flush(n, handleVote(n, core[n], vote))
    /\ UNCHANGED <<started, stops, pos, committee, rt>>

\* The timeout of step NewHeight fires.
NewHeightTimeout(n) ==
    /\ Lingering(n)
    /\ core[n].timer.Step = RoundStepNewHeight
    /\ Flush(n, handleTimeout(n, [core[n] EXCEPT !.timer = NoTimeout], core[n].timer))
    /\ UNCHANGED <<started, stops, pos, committee, rt>>

NextLate ==
    \E n \in Vals :
        \/ Start(n)
        \/ RecvOwnVote(n)
        \/ RecvVote(n)
        \/ Timeout(n)
        \/ RecvLateOwnVote(n)
        \/ RecvLateVote(n)
        \/ NewHeightTimeout(n)

SpecLate == Init /\ [][NextLate]_vars

InitSync == committee = SyncCommittee /\ InitCores

NextSync ==
    \E n \in Vals :
        \/ Start(n)
        \/ RecvOwnVote(n)
        \/ RecvVote(n)
        \/ RecvCommit(n)
        \/ RecvFetchVotesRsp(n)
        \/ RecvFetchVotesReq(n)
        \/ Timeout(n)

SpecSync == InitSync /\ [][NextSync]_vars

InitLife == committee = LifeCommittee /\ InitCores

NextLife ==
    \E n \in Vals :
        \/ Start(n)
        \/ Stop(n)
        \/ AppAdvance(n)
        \/ RecvOwnVote(n)
        \/ RecvVote(n)
        \/ Timeout(n)

SpecLife == InitLife /\ [][NextLife]_vars

InitNet == committee = NetCommittee /\ InitCores

NextNet ==
    \E n \in Vals :
        \/ Start(n)
        \/ RecvOwnVote(n)
        \/ RecvPeerVote(n)
        \/ RecvVote(n)
        \/ Timeout(n)

SpecNet == InitNet /\ [][NextNet]_vars

\* The goroutines of one Core, with what its handlers decide left open.
Apart == UNCHANGED <<core, started, stops, net, pos, committee>>

GateStart(t) ==
    /\ rt.pc[t] = "idle" /\ rt.calls < MaxCalls
    /\ rt' = enterGate(rt, t, "Start") /\ Apart

GateStop(t) ==
    /\ rt.pc[t] = "idle" /\ rt.calls < MaxCalls
    /\ rt' = enterGate(rt, t, "Stop") /\ Apart

StartBody(t) == rt.pc[t] = "Start" /\ rt' = startBody(rt, t) /\ Apart

StartReturn(t) == rt.pc[t] = "StartSpawned" /\ rt' = startReturn(rt, t) /\ Apart

StopBody(t) == rt.pc[t] = "Stop" /\ rt' = stopBody(rt, t) /\ Apart

\* c.Wait() returns when the receive task has called Done.
StopReturn(t) ==
    /\ rt.pc[t] = "StopWait" /\ rt.tasks = 0
    /\ rt' = stopReturn(rt, t) /\ Apart

\* RecvMsg finds the core started.
RecvMsg ==
    /\ rt.peer = "idle" /\ rt.msgs < MaxMsgs /\ rt.started = 1
    /\ rt' = [rt EXCEPT !.peer = "send"] /\ Apart

\* RecvMsg calls sendInternalMessage.
RecvMsgSend ==
    /\ rt.peer = "send"
    /\ rt' = [sendInternalMessage(rt, "peer") EXCEPT !.peer = "idle"] /\ Apart

\* The goroutine of sendInternalMessage gets its message on msgQueue.
AsyncSend ==
    /\ Len(rt.msgQueue) < msgQueueSize
    /\ \E m \in rt.senders :
         rt' = [rt EXCEPT !.msgQueue = Append(@, m), !.senders = @ \ {m}]
    /\ Apart

\* receiveRoutine: case <-c.done.
ReceiveDone ==
    /\ rt.tasks > 0 /\ rt.done = "closed"
    /\ rt' = [rt EXCEPT !.tasks = @ - 1] /\ Apart

ReceiveMsg ==
    /\ rt.tasks > 0 /\ rt.msgQueue # <<>>
    /\ \E key \in {0} \cup Keys, emit \in BOOLEAN : rt' = receiveMsg(rt, key, emit)
    /\ Apart

ReceiveTock ==
    /\ rt.tasks > 0 /\ rt.timeoutTicker.tock # NoTicket
    /\ \E key \in {0} \cup Keys, emit \in BOOLEAN : rt' = receiveTock(rt, key, emit)
    /\ Apart

\* The armed timer fires: its ticket is on the ticker's channel.
TickerFire ==
    /\ rt.timeoutTicker.running
    /\ rt.timeoutTicker.armed # NoTicket /\ rt.timeoutTicker.tock = NoTicket
    /\ rt' = [rt EXCEPT !.timeoutTicker.tock = rt.timeoutTicker.armed,
                        !.timeoutTicker.armed = NoTicket]
    /\ Apart

Receive == ReceiveDone \/ ReceiveMsg \/ ReceiveTock

NextRun ==
    \/ \E t \in Callers :
          \/ GateStart(t)
          \/ GateStop(t)
          \/ StartBody(t)
          \/ StartReturn(t)
          \/ StopBody(t)
          \/ StopReturn(t)
    \/ RecvMsg
    \/ RecvMsgSend
    \/ AsyncSend
    \/ Receive
    \/ TickerFire

\* The receive task and the goroutines of sendInternalMessage are scheduled,
\* and a goroutine that waits for room on msgQueue gets it when there is
\* room again and again.
SpecRun ==
    /\ Init /\ [][NextRun]_vars
    /\ WF_vars(ReceiveDone) /\ WF_vars(ReceiveMsg) /\ WF_vars(ReceiveTock)
    /\ SF_vars(AsyncSend)

\* One Start of the core and then, at any time, one Stop, by one caller.
NextQueue ==
    \/ rt.calls = 0 /\ GateStart(1)
    \/ rt.calls = 1 /\ GateStop(1)
    \/ StartBody(1)
    \/ StartReturn(1)
    \/ StopBody(1)
    \/ StopReturn(1)
    \/ RecvMsg
    \/ RecvMsgSend
    \/ AsyncSend
    \/ Receive
    \/ TickerFire

SpecQueue ==
    /\ Init /\ [][NextQueue]_vars
    /\ WF_vars(ReceiveDone) /\ WF_vars(ReceiveMsg) /\ WF_vars(ReceiveTock)
    /\ SF_vars(AsyncSend)

\* The validators that have signed a precommit for NilData of (height 1,
\* round 0): with two of the four, no value has +2/3 of the precommits of
\* round 0 any more.
NilPrecommitters ==
    {s \in Correct : \E i \in 1..Len(net[s]) :
        /\ net[s][i].Type = PrecommitType /\ net[s][i].Height = 1
        /\ net[s][i].Round = 0 /\ net[s][i].Proposed = NilData}

\* Round 0 of height 1 can still decide: no validator has left it, and no
\* core has ended.
Open ==
    /\ Cardinality(NilPrecommitters) < 2
    /\ \A n \in Correct : core[n].panic = "" /\ (core[n].Height = 1 => core[n].Round = 0)

InitHappy == committee = HappyCommittee /\ InitCores

\* Validators 1 and 2 are prompt: they take a message as soon as it is
\* there, and their timeouts outlast every delay. Validators 3 and 4 are
\* slow: they take their messages, and their propose and wait timeouts
\* fire, at any time the prompt ones leave them. All validators are started
\* before the first of them goes on, and a fetch timeout, which only asks
\* the peers again, fires when nothing else is left to do.
Prompt == {1, 2}

AllStarted == \A n \in Correct : started[n]

\* Validator n has a message or the start of its height to take; what it
\* does at height 2 is not followed.
Busy(n) ==
    /\ Working(n) /\ core[n].Height = 1
    /\ \/ \E s \in Correct : pos[n][s] < Len(net[s])
       \/ core[n].timer.Step = RoundStepNewHeight

\* A message, or the timeout that starts the height.
Step(n) ==
    /\ AllStarted /\ core[n].Height = 1
    /\ \/ RecvOwnVote(n)
       \/ RecvPeerVote(n)
       \/ core[n].timer.Step = RoundStepNewHeight /\ Timeout(n)

PromptStep(n) == n \in Prompt /\ Step(n)

\* The timeouts of the steps Propose, PrevoteWait and PrecommitWait.
WaitSteps == {RoundStepPropose, RoundStepPrevoteWait, RoundStepPrecommitWait}

SlowStep(n) ==
    /\ n \notin Prompt /\ \A m \in Prompt : ~Busy(m)
    /\ \/ Step(n)
       \/ /\ AllStarted /\ core[n].Height = 1
          /\ core[n].timer.Step \in WaitSteps /\ Timeout(n)

\* The other timeouts fire when no validator has anything else to take.
LateTimeout(n) ==
    /\ AllStarted /\ core[n].Height = 1 /\ \A m \in Correct : ~Busy(m)
    /\ n \in Prompt \/ core[n].timer.Step \notin WaitSteps
    /\ Timeout(n)

\* Height 1 of the four validators, followed while its round 0 is open.
NextHappy ==
    /\ Open
    /\ \E n \in Vals :
          \/ Start(n)
          \/ PromptStep(n)
          \/ SlowStep(n)
          \/ LateTimeout(n)

\* Something is taken as long as something is left to take.
SpecHappy == InitHappy /\ [][NextHappy]_vars /\ WF_vars(NextHappy)

\* ------------------------------------------------------------- properties
\* The votes validator s has signed so far.
Signed(s) == {net[s][i] : i \in 1..Len(net[s])}

\* The correct validators that have signed a precommit of (h, r) for v.
Precommitters(h, r, v) ==
    {n \in Correct : \E vote \in Signed(n) :
        /\ vote.Type = PrecommitType /\ vote.Height = h
        /\ vote.Round = r /\ vote.Proposed = v}

\* The non-nil values that have reached a +2/3 precommit majority of height
\* h: those a correct validator has handed to the committee, and those whose
\* precommits of one round, signed by correct validators, make +2/3 of the
\* power together with the faulty validators.
MajorityValues(h) ==
    {rec.ProposedData :
        rec \in {x \in UNION {core[n].committed : n \in Correct} : x.Height = h}}
    \cup {v \in Data \ {NilData} :
            \E r \in Rounds :
                /\ Precommitters(h, r, v) # {}
                /\ IsTwoThirds(SumPower(Precommitters(h, r, v) \cup Faulty))}

\* C1: Agreement. With more than 2/3 of the power at correct validators, at
\* most one non-nil value reaches a +2/3 precommit majority over all the
\* rounds of a height, so that no two correct validators hand the committee
\* commits of different values for one height.
C1_Agreement == \A h \in 1..(MaxHeight + 1) : Cardinality(MajorityValues(h)) <= 1

\* A value has reached a +2/3 precommit majority, a correct validator has
\* handed a commit to the committee, and another has, in a later round, a
\* proposal for a different value in front of it.
C1_Witness ==
    \E n, m \in Correct :
        /\ n # m /\ core[m].committed # {}
        /\ core[n].Height = 1 /\ core[n].Round > 0 /\ core[n].Proposal # NoVote
        /\ MajorityValues(1) # {}
        /\ core[n].Proposal.Proposed \notin MajorityValues(1)

\* The votes validator n signs in this step.
NewSigned(n) == {net'[n][i] : i \in (Len(net[n]) + 1)..Len(net'[n])}

\* The Commit records validator n hands to the committee in this step.
NewCommitted(n) == core'[n].committed \ core[n].committed

\* C2: a commit is only produced for a non-nil value. Whenever a validator
\* hands a Commit record to the committee or leaves its height, the record
\* is for its height and for the value, different from NilData, that has
\* the +2/3 majority of the precommits of the commit round (kept as
\* LastCommit), and Height advances by one; a +2/3 majority for NilData
\* hands over nothing and leaves Height as it is.
C2_CommitNonNil ==
    [][\A n \in Correct :
         (started[n] /\ (NewCommitted(n) # {} \/ core'[n].Height # core[n].Height))
         => \E rec \in NewCommitted(n) :
               /\ NewCommitted(n) = {rec}
               /\ rec.ProposedData # NilData
               /\ rec.Height = core[n].Height
               /\ core'[n].Height = core[n].Height + 1
               /\ core'[n].LastCommit.ok
               /\ core'[n].LastCommit.round = rec.Round
               /\ CanMakeCommit(core'[n].LastCommit.votes)
               /\ TwoThirdsMajority(core'[n].LastCommit.votes) = rec.ProposedData]_vars

\* A validator has committed in round 1 and is at the next height.
C2_Witness ==
    \E n \in Correct :
        /\ core[n].Height = 2
        /\ \E rec \in core[n].committed : rec.Round = 1 /\ rec.ProposedData # NilData

\* C3: the lock invariant. After Start, LockedRound >= 0 exactly when there
\* is a LockedProposal, and then the prevotes of round LockedRound have a
\* +2/3 majority for LockedProposal.Proposed.
C3_LockInvariant ==
    \A n \in Correct :
        (core[n].Votes.ok /\ core[n].panic = "")
        => /\ (core[n].LockedRound >= 0) <=> (core[n].LockedProposal # NoVote)
           /\ core[n].LockedRound >= 0
              => /\ HasTwoThirdsMajority(Prevotes(core[n].Votes, core[n].LockedRound))
                 /\ TwoThirdsMajority(Prevotes(core[n].Votes, core[n].LockedRound))
                      = core[n].LockedProposal.Proposed

\* A validator locked in round 0 has reached round 1 with its lock.
C3_Witness ==
    \E n \in Correct :
        core[n].panic = "" /\ core[n].Round = 1 /\ core[n].LockedRound = 0

\* C4: whenever a validator signs a precommit for a non-nil value v at
\* (h, r) and stays at height h, the prevotes of round r have a +2/3 majority
\* for v and the validator is locked with LockedRound = r on v: on the
\* LockedProposal it had when that was for v (relock), and otherwise on the
\* Proposal it had, which is for v (lock).
C4_PrecommitLocks ==
    [][\A n \in Correct : \A vote \in NewSigned(n) :
         (/\ vote.Type = PrecommitType /\ vote.Proposed # NilData
          /\ core'[n].Height = vote.Height /\ core'[n].panic = "")
         => /\ vote.Height = core[n].Height
            /\ CanMakeCommit(Prevotes(core'[n].Votes, vote.Round))
            /\ TwoThirdsMajority(Prevotes(core'[n].Votes, vote.Round)) = vote.Proposed
            /\ core'[n].LockedRound = vote.Round
            /\ core'[n].LockedProposal.Proposed = vote.Proposed
            /\ IF core[n].LockedRound >= 0
                  /\ core[n].LockedProposal.Proposed = vote.Proposed
               THEN core'[n].LockedProposal = core[n].LockedProposal
               ELSE /\ core[n].Proposal.Proposed = vote.Proposed
                    /\ core'[n].LockedProposal = core[n].Proposal]_vars

\* A validator has precommitted a value in round 0 and, relocking, in
\* round 1.
C4_Witness ==
    \E n \in Correct : \E v \in Data \ {NilData} :
        /\ core[n].panic = "" /\ core[n].LockedRound = 1
        /\ n \in Precommitters(1, 0, v) /\ n \in Precommitters(1, 1, v)

\* The votes receiveRoutine of validator n may take next.
Inbox(n) ==
    Deliverable \cup {net[s][pos[n][s] + 1] : s \in {q \in Correct : pos[n][q] < Len(net[q])}}

\* C5: unlock on a nil polka. When a validator locked in an earlier round
\* takes the prevote that gives the prevotes of its round a +2/3 majority
\* for NilData, handling it completes without an abort, leaves the validator
\* unlocked and signs a precommit for NilData of that round.
C5_UnlockOnNilPolka ==
    \A n \in Correct : Working(n) =>
        \A vote \in Inbox(n) :
            LET c == core[n]
                after == handleVote(n, c, vote)
            IN (/\ c.LockedProposal # NoVote /\ c.LockedRound < c.Round
                /\ RoundStepPrevote <= c.Step /\ c.Step < RoundStepPrecommit
                /\ vote.Type = PrevoteType /\ vote.Round = c.Round
                /\ ~HasTwoThirdsMajority(Prevotes(c.Votes, c.Round))
                /\ HasTwoThirdsMajority(Prevotes(after.Votes, c.Round))
                /\ TwoThirdsMajority(Prevotes(after.Votes, c.Round)) = NilData)
               => /\ after.panic = ""
                  /\ after.LockedRound = 0 - 1 /\ after.LockedProposal = NoVote
                  /\ \E i \in 1..Len(after.out) :
                        /\ after.out[i].Type = PrecommitType
                        /\ after.out[i].Round = c.Round
                        /\ after.out[i].Proposed = NilData

\* C6: step monotonicity. Round is never negative; within a height it never
\* decreases, and between two successive states of one (Height, Round) the
\* Step does not move backwards.
C6_StepMonotone ==
    /\ [](\A n \in Correct : core[n].Round >= 0)
    /\ [][\A n \in Correct :
            core'[n].Height = core[n].Height
            => /\ core'[n].Round >= core[n].Round
               /\ core'[n].Round = core[n].Round => core'[n].Step >= core[n].Step]_vars

\* A validator has gone through the steps of round 0 and of round 1, up to
\* PrecommitWait.
C6_Witness ==
    \E n \in Correct :
        /\ core[n].panic = "" /\ core[n].Round = 1
        /\ core[n].Step = RoundStepPrecommitWait
        /\ \E v \in Signed(n) : v.Type = PrecommitType /\ v.Round = 0

Transitions ==
    {"enterNewRound", "enterPropose", "enterPrevote", "enterPrevoteWait",
     "enterPrecommit", "enterPrecommitWait", "enterCommit"}

\* The step a transition leads to.
TargetStep(k) ==
    CASE k = "enterNewRound" -> RoundStepNewRound
      [] k = "enterPropose" -> RoundStepPropose
      [] k = "enterPrevote" -> RoundStepPrevote
      [] k = "enterPrevoteWait" -> RoundStepPrevoteWait
      [] k = "enterPrecommit" -> RoundStepPrecommit
      [] k = "enterPrecommitWait" -> RoundStepPrecommitWait
      [] k = "enterCommit" -> RoundStepCommit

Enter(k, n, c, h, r) ==
    CASE k = "enterNewRound" -> enterNewRound(n, c, h, r)
      [] k = "enterPropose" -> enterPropose(n, c, h, r)
      [] k = "enterPrevote" -> enterPrevote(n, c, h, r)
      [] k = "enterPrevoteWait" -> enterPrevoteWait(n, c, h, r)
      [] k = "enterPrecommit" -> enterPrecommit(n, c, h, r)
      [] k = "enterPrecommitWait" -> enterPrecommitWait(n, c, h, r)
      [] k = "enterCommit" -> enterCommit(n, c, h, r)

\* The precondition check as the specification words it, for every
\* transition alike.
Refused(k, c, h, r) ==
    \/ h # c.Height
    \/ r < c.Round
    \/ (r = c.Round /\ TargetStep(k) <= c.Step)

\* The same, with the check of enterCommit as it is: the height and the step.
RefusedByCode(k, c, h, r) ==
    IF k = "enterCommit" THEN h # c.Height \/ RoundStepCommit <= c.Step
    ELSE Refused(k, c, h, r)

\* The Cores of validator n at which addVote calls enterCommit(height, round)
\* when it takes a vote of its inbox next.
CommitCalls(n) ==
    {[c |-> beforeEnterCommit(n, [core[n] EXCEPT !.Votes = HeightVoteSetAddVote(@, vote).hvs],
                              vote, core[n].Height),
      h |-> core[n].Height, r |-> vote.Round] :
        vote \in {v \in Inbox(n) :
                    /\ v.Type = PrecommitType /\ v.Height = core[n].Height
                    /\ HeightVoteSetAddVote(core[n].Votes, v).added
                    /\ HasTwoThirdsMajority(
                           Precommits(HeightVoteSetAddVote(core[n].Votes, v).hvs, v.Round))}}

\* The calls of transition k the formulas below look at: every (h, r) at the
\* Core as it is; for enterCommit, which addVote alone calls and only with
\* a +2/3 majority, the calls addVote makes and those of another height.
Calls(k, n) ==
    IF k = "enterCommit"
    THEN CommitCalls(n)
         \cup {[c |-> core[n], h |-> h, r |-> r] :
                 h \in (0..(MaxHeight + 1)) \ {core[n].Height}, r \in Rounds}
    ELSE {[c |-> core[n], h |-> h, r |-> r] : h \in 0..(MaxHeight + 1), r \in Rounds}

\* C7 as it is worded: a transition called with another height, with an
\* earlier round, or with the round of the Core at or past its target step
\* leaves the Core as it is: RoundState, votes and commits signed, timeout.
C7_GuardNoOp ==
    \A n \in Correct : (started[n] /\ core[n].panic = "") =>
        \A k \in Transitions : \A call \in Calls(k, n) :
            Refused(k, call.c, call.h, call.r)
            => Enter(k, n, call.c, call.h, call.r) = call.c

\* C7, amended: that holds of the six transitions before enterCommit;
\* enterCommit leaves the Core as it is when called with another height or
\* in step Commit, and commits for an earlier round otherwise.
C7_GuardNoOpByCode ==
    \A n \in Correct : (started[n] /\ core[n].panic = "") =>
        \A k \in Transitions : \A call \in Calls(k, n) :
            RefusedByCode(k, call.c, call.h, call.r)
            => Enter(k, n, call.c, call.h, call.r) = call.c

\* A validator in round 1, past the step Precommit, whose inbox holds the
\* precommit that completes a +2/3 majority of round 0.
C7_Witness ==
    \E n \in Correct :
        /\ started[n] /\ core[n].panic = "" /\ core[n].Round = 1
        /\ core[n].Step >= RoundStepPrecommit
        /\ \E call \in CommitCalls(n) : call.r = 0 /\ call.c.Round = 1

\* C8: idempotence. Calling a transition a second time with the same
\* arguments leaves the Core as the first call has left it: RoundState,
\* votes and commits signed, timeout.
C8_Idempotent ==
    \A n \in Correct : (started[n] /\ core[n].panic = "") =>
        \A k \in Transitions : \A call \in Calls(k, n) :
            LET once == Enter(k, n, call.c, call.h, call.r)
            IN once.panic = "" => Enter(k, n, once, call.h, call.r) = once

\* A validator in round 0 before the step Prevote, holding a proposal: a
\* call of enterPrevote signs a prevote, and so does enterNewRound for
\* round 1.
C8_Witness ==
    \E n \in Correct :
        /\ started[n] /\ core[n].panic = "" /\ core[n].Height = 1
        /\ core[n].Round = 0 /\ core[n].Step = RoundStepPropose
        /\ Len(enterPrevote(n, core[n], 1, 0).out) = 1
        /\ enterNewRound(n, core[n], 1, 1).Round = 1

\* Validator n is started in this step: Start runs updateToAppState.
Started(n) == ~started[n] /\ started'[n]

\* What updateToAppState resets, and the Height it sets.
ResetTo(c, appState) ==
    /\ c.Height = appState.LastHeight + 1
    /\ c.Round = 0 /\ c.Step = RoundStepNewHeight
    /\ c.Proposal = NoVote
    /\ c.LockedRound = 0 - 1 /\ c.LockedProposal = NoVote
    /\ c.CommitRound = 0 - 1

\* C9 as it is worded: every run of updateToAppState, from the commit path
\* and from Start, sets Height to LastHeight + 1, strictly above the Height
\* before it unless that was 0, and resets Round, Step, Proposal, the lock
\* and CommitRound.
C9_StrictAdvance ==
    [][\A n \in Correct :
         ((Started(n) \/ NewCommitted(n) # {}) /\ core'[n].panic = "")
         => /\ ResetTo(core'[n], core'[n].app)
            /\ core'[n].Height > core[n].Height \/ core[n].Height = 0]_vars

\* C9, amended: every run of updateToAppState sets Height to LastHeight + 1
\* and resets Round, Step, Proposal, the lock and CommitRound; Height never
\* goes back, is strictly greater on the commit path, and stays as it is
\* when Start follows a Stop and the application has not moved on.
C9_AppStateAdvance ==
    [][\A n \in Correct :
         ((Started(n) \/ NewCommitted(n) # {}) /\ core'[n].panic = "")
         => /\ ResetTo(core'[n], core'[n].app)
            /\ core'[n].Height >= core[n].Height
            /\ NewCommitted(n) # {} => core'[n].Height > core[n].Height
            /\ (Started(n) /\ core[n].Height > 0
                           /\ core[n].app.LastHeight + 1 = core[n].Height)
               => core'[n].Height = core[n].Height]_vars

\* A validator that has precommitted a value at height 1 has been stopped
\* and started again at height 1: the lock is gone, the Height is the same.
C9_Witness ==
    \E n \in Correct :
        /\ stops > 0 /\ started[n] /\ core[n].panic = ""
        /\ core[n].Height = 1 /\ core[n].Step = RoundStepNewHeight
        /\ core[n].LockedRound = 0 - 1
        /\ \E v \in Signed(n) :
              v.Type = PrecommitType /\ v.Height = 1 /\ v.Proposed # NilData

\* C10: remote input never terminates the core. No correct validator
\* reaches a PanicSanity, whatever the messages and the timeouts.
C10_NoAbort == \A n \in Correct : core[n].panic = ""

\* The vote sets of the current height of a Core: the prevotes and the
\* precommits of every round.
VoteSets == {PrevoteType, PrecommitType} \X Rounds

SetOf(hvs, k) == IF k[1] = PrevoteType THEN hvs.prevotes[k[2]] ELSE hvs.precommits[k[2]]

\* The sum of the tallies of the values.
RECURSIVE SumTally(_, _)
SumTally(vs, D) ==
    IF D = {} THEN 0
    ELSE LET p == CHOOSE x \in D : TRUE IN Tally(vs, p) + SumTally(vs, D \ {p})

\* A vote of the inbox whose signer has a different vote in its set.
Conflicting(c, vote) ==
    /\ vote.Type \in {PrevoteType, PrecommitType}
    /\ vote.Height = c.Height /\ vote.Round \in Rounds /\ vote.Round <= c.Votes.round
    /\ vote.Address \in DOMAIN SetOf(c.Votes, <<vote.Type, vote.Round>>)
    /\ SetOf(c.Votes, <<vote.Type, vote.Round>>)[vote.Address] # vote.Proposed

Committed(n) ==
    /\ core[n].panic = ""
    /\ core[n].committed = {[Height |-> 1, Round |-> 0, ProposedData |-> X]}
    /\ core[n].Height = 2
    /\ \/ core[n].timer = [Height |-> 2, Round |-> 0, Step |-> RoundStepNewHeight]
       \/ core[n].Step >= RoundStepNewRound

\* A propose timeout has fired before the proposal was there: a validator
\* has signed a prevote for NilData of round 0.
Untimely ==
    \E s \in Correct : \E i \in 1..Len(net[s]) :
        /\ net[s][i].Type = PrevoteType /\ net[s][i].Height = 1
        /\ net[s][i].Round = 0 /\ net[s][i].Proposed = NilData

\* The armed timeout of validator n, when it fires, changes the core or
\* signs a vote.
TimeoutActs(n) ==
    /\ Working(n) /\ core[n].Height = 1
    /\ core[n].timer # NoTimeout
    /\ ~(core[n].timer.Step = RoundStepPrecommitWait /\ core[n].timer.Round >= MaxRound)
    /\ handleTimeout(n, [core[n] EXCEPT !.timer = NoTimeout], core[n].timer) # core[n]

\* Every validator is started, every message is taken and no timeout is
\* left that does anything.
Quiet == AllStarted /\ \A n \in Correct : ~Busy(n) /\ ~TimeoutActs(n)

RECURSIVE SumOver(_, _)
SumOver(f, S) ==
    IF S = {} THEN 0
    ELSE LET x == CHOOSE x \in S : TRUE IN f[x] + SumOver(f, S \ {x})

\* How far validator n has come: its start, the messages it has taken, its
\* height, round and step and, within the step, the request for the missing
\* votes and the fire of a timeout that is no longer of use.
Progress(n) ==
    (IF started[n] THEN 1 ELSE 0) + SumOver(pos[n], Correct)
    + ((core[n].Height * (MaxRound + 2) + core[n].Round) * (RoundStepCommit + 1)
       + core[n].Step) * 4
    + (IF core[n].inFetch THEN 1 ELSE 0)
    + (IF core[n].timer = NoTimeout THEN 1 ELSE 0)

SkipTo(n, r) ==
    /\ started[n] /\ core[n].panic = ""
    /\ core'[n].Height = core[n].Height
    /\ core[n].Round < r
    /\ ~HasTwoThirdsAny(Prevotes(core[n].Votes, r))
    /\ HasTwoThirdsAny(Prevotes(core'[n].Votes, r))

\* C13: round-skip via prevotes. When a prevote of the current height makes
\* the prevotes of a round r' ahead of the validator hold +2/3 of the power,
\* whatever the values, the handling of that vote ends in round r', past the
\* step NewHeight, with the Proposal of the earlier round cleared (no
\* Proposal, or the one the validator itself makes for r'), whatever the
\* step before.
C13_RoundSkip ==
    [][\A n \in Correct, r \in Rounds :
          SkipTo(n, r) => /\ core'[n].panic = ""
                          /\ core'[n].Round = r
                          /\ core'[n].Step >= RoundStepNewRound
                          /\ core'[n].Proposal = NoVote \/ core'[n].Proposal.Round = r]_vars

\* A validator that had the proposal of round 0 is in round 1 on +2/3 of
\* the prevotes of round 1, with no +2/3 of the precommits of round 0 that
\* would have taken it there.
C13_Witness ==
    \E n \in Correct :
        /\ core[n].panic = "" /\ core[n].Height = 1 /\ core[n].Round = 1
        /\ HasTwoThirdsAny(Prevotes(core[n].Votes, 1))
        /\ ~HasTwoThirdsAny(Precommits(core[n].Votes, 0))
        /\ \E i \in 1..Len(net[n]) :
              net[n][i].Type = PrevoteType /\ net[n][i].Round = 0 /\ net[n][i].Proposed # NilData

\* The votes of the height before that of validator n that can reach it:
\* those of the faulty validators and its own.
Stragglers(n) ==
    {vote \in Deliverable \cup {net[n][i] : i \in 1..Len(net[n])} :
        vote.Height + 1 = core[n].Height}

\* The precommits of the height before are taken: step NewHeight, with a
\* LastCommit.
TakesStragglers(c) == c.Step = RoundStepNewHeight /\ c.LastCommit.ok

\* What handling the vote makes of validator n.
AfterVote(n, vote) == handleVote(n, core[n], vote)

\* The vote of the height before is recorded in LastCommit.
Straggled(n, vote) == AfterVote(n, vote).LastCommit # core[n].LastCommit

\* C14: the straggling precommit. A vote of the height before changes the
\* core only as a precommit in step NewHeight with a LastCommit; it is then
\* recorded in LastCommit for its signer and, when LastCommit has all votes
\* and SkipTimeoutCommit is set, the core enters round 0 of its height at
\* once; nothing else of the core changes. Every other vote of the height
\* before leaves the core as it is.
C14_Straggler ==
    \A n \in Correct : \A vote \in Stragglers(n) :
        (started[n] /\ core[n].panic = "")
        => LET c == core[n]
               d == AfterVote(n, vote)
           IN /\ ~(TakesStragglers(c) /\ vote.Type = PrecommitType) => d = c
              /\ ~Straggled(n, vote) => d = c
              /\ Straggled(n, vote)
                 => /\ vote.Address \notin DOMAIN c.LastCommit.votes
                    /\ d.LastCommit =
                         [c.LastCommit EXCEPT
                            !.votes = (vote.Address :> vote.Proposed) @@ @]
                    /\ IF SkipTimeoutCommit /\ HasAll(d.LastCommit.votes)
                       THEN /\ d.Height = c.Height /\ d.Round = 0
                            /\ d.Step > RoundStepNewHeight
                            /\ d.panic = ""
                       ELSE d = [c EXCEPT !.LastCommit = d.LastCommit]

\* A validator waits in step NewHeight of height 2 for the one precommit of
\* height 1 that LastCommit lacks, and that precommit comes in.
C14_Witness ==
    \E n \in Correct : \E vote \in Stragglers(n) :
        /\ started[n] /\ core[n].panic = "" /\ TakesStragglers(core[n])
        /\ Straggled(n, vote)
        /\ HasAll(AfterVote(n, vote).LastCommit.votes)
        /\ AfterVote(n, vote).Step > RoundStepNewHeight

\* The calls of Start and Stop that are past the gate.
InBody == {t \in Callers : rt.pc[t] # "idle"}

\* A call has been made and no caller is further than before: the call has
\* been turned away at the gate.
TurnedAway == rt'.calls = rt.calls + 1 /\ rt'.pc = rt.pc

\* Caller t returns from the check of started.
SentBack(t) == rt.pc[t] \in {"Start", "Stop"} /\ rt'.pc[t] = "idle"

\* C15: the gate of Start and Stop. At most one call is past the gate; a
\* call that finds the gate taken returns the error and changes nothing; a
\* Start of a started core and a Stop of a stopped one return their error
\* and leave all but the gate as it was; at most one receive task exists,
\* and none when the core is stopped and no Start has spawned one.
C15_Gate ==
    /\ [](/\ Cardinality(InBody) <= 1
          /\ rt.inStartOrStop = 1 <=> InBody # {}
          /\ rt.tasks <= 1
          /\ (rt.started = 0 /\ \A t \in Callers : rt.pc[t] # "StartSpawned")
             => rt.tasks = 0)
    /\ [][TurnedAway
            => /\ rt.inStartOrStop = 1
               /\ \E t \in Callers :
                     /\ rt.pc[t] = "idle"
                     /\ rt' = [rt EXCEPT !.calls = @ + 1,
                                          !.ret[t] = "gobft is in the process of start or stop"]]_vars
    /\ [][\A t \in Callers :
            /\ (rt.pc[t] = "Start" /\ rt.started = 1) \/ (rt.pc[t] = "Stop" /\ rt.started = 0)
               => (rt'.pc[t] # rt.pc[t] => SentBack(t))
            /\ SentBack(t)
               => /\ rt.started = (IF rt.pc[t] = "Start" THEN 1 ELSE 0)
                  /\ rt'.ret[t] = (IF rt.pc[t] = "Start" THEN "gobft already started"
                                                        ELSE "gobft already stopped")
                  /\ rt' = [rt EXCEPT !.inStartOrStop = 0, !.pc[t] = "idle",
                                       !.ret[t] = rt'.ret[t]]]_vars

\* A call has been turned away at the gate while another one, a Stop, waits
\* for the receive task.
C15_Witness ==
    \E t, u \in Callers :
        /\ rt.pc[t] = "StopWait" /\ rt.tasks = 1
        /\ rt.ret[u] = "gobft is in the process of start or stop"

\* The messages sent so far.
Sent == 1..rt.msgs

\* The order of the handled messages that RecvMsg has taken is that of their
\* numbers.
InOrder(q) ==
    \A i, j \in 1..Len(q) :
        (i < j /\ q[i] \in rt.received /\ q[j] \in rt.received) => q[i] < q[j]

Stopped == rt.started = 0 /\ \A t \in Callers : rt.pc[t] \notin {"Start", "StartSpawned"}

\* C17: shutdown drops the pending work. A message that is on msgQueue or
\* with a goroutine of sendInternalMessage when Stop returns is not handled
\* later, and while the core is stopped no message is handled and no timeout
\* observed.
C17_ShutdownDrops ==
    /\ [](rt.stale \cap Range(rt.handled) = {})
    /\ [][Stopped => rt'.handled = rt.handled /\ rt'.observed = rt.observed]_vars

\* C18: timer supersession. A timeout that was in flight when another one
\* was scheduled, later, earlier or the same in the order of (height, round,
\* step), is never observed by the receive task.
C18_Supersession ==
    \A s \in rt.superseded : s.id \notin Range(rt.observed)

\* A timeout has been observed after another one was superseded by a timeout
\* of the same (height, round, step).
C18_Witness ==
    /\ \E s \in rt.superseded : s.key = s.by
    /\ \E i \in 1..Len(rt.observed) : \A s \in rt.superseded : s.id < rt.observed[i]

\* enterPrevote(h, r) passes its guard on c.
PassesPrevote(c, h, r) ==
    c.Height = h /\ (r > c.Round \/ (r = c.Round /\ c.Step < RoundStepPrevote))

\* C19: the prevote choice. A call of enterPrevote that passes its guard
\* signs one prevote, for the validator's height and round: for the value
\* it is locked on when it is locked, whatever its Proposal; otherwise for
\* its Proposal when it has one that the committee validates; otherwise
\* for NilData.
C19_PrevoteChoice ==
    \A n \in Correct : (started[n] /\ core[n].panic = "") =>
        \A call \in Calls("enterPrevote", n) :
            LET c == call.c
                chosen == IF c.LockedRound >= 0 THEN c.LockedProposal.Proposed
                          ELSE IF c.Proposal # NoVote /\ ValidateProposal(c.Proposal.Proposed)
                          THEN c.Proposal.Proposed
                          ELSE NilData
            IN PassesPrevote(c, call.h, call.r)
               => enterPrevote(n, c, call.h, call.r).out
                    = <<Vote(PrevoteType, c.Height, c.Round, chosen, c.lastCommittedData, n)>>

\* A validator locked on X in round 0 has prevoted X in round 1 and holds
\* the proposal of round 1, which is for Y: a call of enterPrevote that
\* passes the guard signs a prevote for X.
C19_Witness ==
    \E n \in Correct :
        /\ started[n] /\ core[n].panic = ""
        /\ core[n].Round = 1 /\ core[n].LockedRound = 0
        /\ core[n].LockedProposal.Proposed = X
        /\ core[n].Proposal # NoVote /\ core[n].Proposal.Proposed = Y
        /\ \E i \in 1..Len(net[n]) :
              /\ net[n][i].Type = PrevoteType /\ net[n][i].Round = 1
              /\ net[n][i].Proposed = X
        /\ \E call \in Calls("enterPrevote", n) :
              /\ PassesPrevote(call.c, call.h, call.r)
              /\ enterPrevote(n, call.c, call.h, call.r).out[1].Proposed = X

\* enterPrecommit(h, r) passes its guard on c.
PassesPrecommit(c, h, r) ==
    c.Height = h /\ (r > c.Round \/ (r = c.Round /\ c.Step < RoundStepPrecommit))

\* C20: enterPrecommit without a polka. A call of enterPrecommit(h, r) that
\* passes its guard while the prevotes of round r have no +2/3 majority for
\* one value signs a precommit of (h, r) for NilData, leaves LockedRound
\* and LockedProposal as they were, and ends in round r in step
\* PrecommitFetch with the fetch timeout of (h, r) armed; nothing else of
\* the core changes.
C20_NoPolkaPrecommit ==
    \A n \in Correct : (started[n] /\ core[n].panic = "") =>
        \A call \in Calls("enterPrecommit", n) :
            LET c == call.c
                d == enterPrecommit(n, c, call.h, call.r)
            IN (/\ PassesPrecommit(c, call.h, call.r)
                /\ ~HasTwoThirdsMajority(Prevotes(c.Votes, call.r)))
               => /\ d.out = <<Vote(PrecommitType, call.h, call.r, NilData,
                                    c.lastCommittedData, n)>>
                  /\ d.LockedRound = c.LockedRound
                  /\ d.LockedProposal = c.LockedProposal
                  /\ d.Step = RoundStepPrecommitFetch
                  /\ d.timer = [Height |-> call.h, Round |-> call.r,
                                Step |-> RoundStepPrecommitFetch]
                  /\ d = [c EXCEPT !.out = d.out, !.Round = call.r, !.Step = d.Step,
                                   !.timer = d.timer, !.inFetch = FALSE]

\* A validator locked in round 0 waits in round 1 for the prevotes, which
\* have no +2/3 majority: enterPrecommit for its round passes the guard.
C20_Witness ==
    \E n \in Correct :
        /\ started[n] /\ core[n].panic = ""
        /\ core[n].Round = 1 /\ core[n].LockedRound = 0
        /\ core[n].Step = RoundStepPrevoteWait
        /\ PassesPrecommit(core[n], core[n].Height, 1)
        /\ ~HasTwoThirdsMajority(Prevotes(core[n].Votes, 1))
        /\ enterPrecommit(n, core[n], core[n].Height, 1).LockedRound = 0


\* The votes of its inbox, of kind `type`, that addVote of validator n adds
\* to c.Votes.
AddedVotes(n, type) ==
    {v \in Inbox(n) :
        /\ v.Type = type /\ v.Height = core[n].Height
        /\ HeightVoteSetAddVote(core[n].Votes, v).added}

\* The Core of validator n when Votes.AddVote has added vote v.
afterAdd(n, v) == [core[n] EXCEPT !.Votes = HeightVoteSetAddVote(@, v).hvs]

\* The Core of validator n when addVote has added prevote v and is through
\* with the polka: the unlock and the reset of a Proposal that is not the
\* polka's.
afterPolka(n, v) ==
    LET c == afterAdd(n, v)
        prevotes == Prevotes(c.Votes, v.Round)
        ok == HasTwoThirdsMajority(prevotes)
        polkaData == TwoThirdsMajority(prevotes)
        c1 == IF ok /\ c.LockedProposal # NoVote /\ c.LockedRound < v.Round
                 /\ c.LockedProposal.Proposed # polkaData
              THEN [c EXCEPT !.LockedRound = 0 - 1, !.LockedProposal = NoVote]
              ELSE c
    IN IF ok /\ polkaData # NilData /\ v.Round = c1.Round
          /\ c1.Proposal # NoVote /\ c1.Proposal.Proposed # polkaData
       THEN [c1 EXCEPT !.Proposal = NoVote]
       ELSE c1

\* The Cores of validator n at which addVote calls enterPrecommit(height,
\* round) when it takes a vote of its inbox next: after a prevote at the
\* round and step of the core with a +2/3 majority, and after a precommit
\* with a +2/3 majority, when enterNewRound has run.
PrecommitCalls(n) ==
    {[c |-> afterPolka(n, v), h |-> core[n].Height, r |-> v.Round] :
       v \in {w \in AddedVotes(n, PrevoteType) :
                /\ HasTwoThirdsMajority(Prevotes(afterAdd(n, w).Votes, w.Round))
                /\ core[n].Round = w.Round /\ RoundStepPrevote <= core[n].Step}}
    \cup
    {[c |-> enterNewRound(n, afterAdd(n, v), core[n].Height, v.Round),
      h |-> core[n].Height, r |-> v.Round] :
       v \in {w \in AddedVotes(n, PrecommitType) :
                HasTwoThirdsMajority(Precommits(afterAdd(n, w).Votes, w.Round))}}

\* enterPrecommit finds, on c, a polka of round r for a value whose proposal
\* c lacks and on which c is not locked.
UnknownPolka(c, r) ==
    LET prevotes == Prevotes(c.Votes, r) IN
    /\ HasTwoThirdsMajority(prevotes)
    /\ TwoThirdsMajority(prevotes) # NilData
    /\ ~(c.LockedRound >= 0 /\ c.LockedProposal # NoVote
         /\ c.LockedProposal.Proposed = TwoThirdsMajority(prevotes))
    /\ ~(c.Proposal # NoVote /\ c.Proposal.Proposed = TwoThirdsMajority(prevotes))

\* C21: enterPrecommit on a polka for an unknown proposal. A call of
\* enterPrecommit(h, r) that passes its guard, made by handleTimeout or by
\* addVote, while the prevotes of round r have a +2/3 majority for a non-nil
\* value on which the core is not locked and whose Proposal it lacks, ends
\* with the core unlocked (LockedRound = -1, no LockedProposal) and signs
\* one vote, the precommit of (h, r) for NilData.
C21_UnknownPolka ==
    \A n \in Correct : (started[n] /\ core[n].panic = "") =>
        \A call \in {x \in Calls("enterPrecommit", n) : x.r = x.c.Round}
                    \cup PrecommitCalls(n) :
            LET c == call.c
                d == enterPrecommit(n, c, call.h, call.r)
            IN (/\ c.panic = ""
                /\ PassesPrecommit(c, call.h, call.r)
                /\ UnknownPolka(c, call.r))
               => /\ d.panic = ""
                  /\ d.LockedRound = 0 - 1
                  /\ d.LockedProposal = NoVote
                  /\ d.out = c.out \o <<Vote(PrecommitType, call.h, call.r, NilData,
                                             c.lastCommittedData, n)>>

\* A validator that waits in PrevoteWait without a Proposal has the prevotes
\* of a +2/3 majority for X: enterPrecommit for its round signs the
\* precommit for NilData.
C21_Witness ==
    \E n \in Correct :
        /\ started[n] /\ core[n].panic = ""
        /\ core[n].Step \in {RoundStepPrevoteFetch, RoundStepPrevoteWait}
        /\ core[n].Proposal = NoVote
        /\ PassesPrecommit(core[n], core[n].Height, core[n].Round)
        /\ UnknownPolka(core[n], core[n].Round)
        /\ TwoThirdsMajority(Prevotes(core[n].Votes, core[n].Round)) = X
        /\ enterPrecommit(n, core[n], core[n].Height, core[n].Round).out[1].Proposed = NilData

\* The condition of addVote's unlock when it has added prevote v to c: a
\* polka of round v.Round, a lock of an earlier round, on another value.
UnlockDue(c, v) ==
    LET prevotes == Prevotes(HeightVoteSetAddVote(c.Votes, v).hvs, v.Round) IN
    /\ HasTwoThirdsMajority(prevotes)
    /\ c.LockedProposal # NoVote
    /\ c.LockedRound < v.Round
    /\ c.LockedProposal.Proposed # TwoThirdsMajority(prevotes)

Acceptable(c, p) ==
    /\ c.Proposal = NoVote
    /\ p.Height = c.Height /\ p.Round = c.Round
    /\ p.Prev = c.lastCommittedData
    /\ p.Address = GetCurrentProposer(c.Round)
    /\ p.Sig
    /\ ValidateProposal(p.Proposed)

\* C23: accepted proposal invariant. In every reachable state a Proposal
\* that is present is of the Height and the Round of the core, is bound to
\* lastCommittedData and is signed by the proposer of Round. A proposal
\* vote received that fails an acceptance condition leaves the core as it
\* is; an accepted one becomes Proposal and enterPrevote(Height, Round)
\* runs: before step Prevote the core signs its prevote of the round and
\* goes on to PrevoteFetch, from step Prevote on nothing else changes.
C23_AcceptedProposal ==
    \A n \in Correct :
        /\ core[n].Proposal # NoVote
           => /\ core[n].Proposal.Type = ProposalType
              /\ core[n].Proposal.Height = core[n].Height
              /\ core[n].Proposal.Round = core[n].Round
              /\ core[n].Proposal.Prev = core[n].lastCommittedData
              /\ core[n].Proposal.Address = GetCurrentProposer(core[n].Round)
        /\ (started[n] /\ core[n].panic = "") =>
             \A p \in {v \in Inbox(n) : v.Type = ProposalType} :
                LET c == core[n]
                    d == handleVote(n, c, p)
                IN IF ~Acceptable(c, p) THEN d = c
                   ELSE /\ d.Proposal = p
                        /\ IF c.Step < RoundStepPrevote
                           THEN /\ Len(d.out) = 1
                                /\ d.out[1].Type = PrevoteType
                                /\ d.out[1].Height = c.Height
                                /\ d.out[1].Round = c.Round
                                /\ d.out[1].Address = n
                                /\ d.Round = c.Round
                                /\ d.Step = RoundStepPrevoteFetch
                           ELSE d = [c EXCEPT !.Proposal = p]

\* A validator in step Propose of round 0 holds no Proposal and can take
\* the proposal of the proposer of round 0 and the proposal of another
\* signer; with the first it prevotes X.
C23_Witness ==
    \E n \in Correct :
        /\ started[n] /\ core[n].panic = ""
        /\ core[n].Step = RoundStepPropose /\ core[n].Round = 0
        /\ \E p \in Inbox(n) :
              /\ p.Type = ProposalType /\ Acceptable(core[n], p)
              /\ handleVote(n, core[n], p).Proposal = p
              /\ handleVote(n, core[n], p).out[1].Proposed = X
        /\ \E p \in Inbox(n) :
              /\ p.Type = ProposalType /\ p.Height = core[n].Height /\ p.Round = 0
              /\ p.Address # GetCurrentProposer(0)
              /\ handleVote(n, core[n], p) = core[n]

\* The Cores of validator n at which enterNewRound(height, round), the
\* caller of enterPropose, is called: by handleTimeout on the core as it is,
\* and by addVote when it takes a vote of its inbox next, on a round-skip
\* and on +2/3 of the precommits of a round.
NewRoundCalls(n) ==
    {[c |-> core[n], h |-> core[n].Height, r |-> r] : r \in Rounds}
    \cup
    {[c |-> afterPolka(n, v), h |-> core[n].Height, r |-> v.Round] :
       v \in {w \in AddedVotes(n, PrevoteType) :
                /\ core[n].Round < w.Round
                /\ HasTwoThirdsAny(Prevotes(afterAdd(n, w).Votes, w.Round))}}
    \cup
    {[c |-> afterAdd(n, v), h |-> core[n].Height, r |-> v.Round] :
       v \in {w \in AddedVotes(n, PrecommitType) :
                \/ HasTwoThirdsMajority(Precommits(afterAdd(n, w).Votes, w.Round))
                \/ /\ core[n].Round <= w.Round
                   /\ HasTwoThirdsAny(Precommits(afterAdd(n, w).Votes, w.Round))}}

\* enterNewRound(h, r) passes its guard on c and goes on to enterPropose.
PassesNewRound(c, h, r) ==
    c.Height = h /\ (r > c.Round \/ (r = c.Round /\ c.Step = RoundStepNewHeight))

\* C24: the proposer respects its lock. When the proposer of round r enters
\* Propose at (h, r), the first vote it signs in that step is the proposal
\* of (h, r), bound to lastCommittedData, for LockedProposal.Proposed when
\* the core is locked and for the committee's DecidesProposal value
\* otherwise; Proposal is that vote, and the core goes on to enterPrevote in
\* the same step: it signs its prevote of (h, r) and ends in round r past
\* step Prevote, the propose timeout not armed.
C24_ProposerLock ==
    \A n \in Correct : (started[n] /\ core[n].panic = "") =>
        \A call \in NewRoundCalls(n) :
            LET c == call.c
                d == enterNewRound(n, c, call.h, call.r)
                data == IF c.LockedRound >= 0 THEN c.LockedProposal.Proposed
                        ELSE DecidesProposal(n)
            IN (/\ c.panic = ""
                /\ PassesNewRound(c, call.h, call.r)
                /\ GetCurrentProposer(call.r) = n)
               => /\ d.panic = ""
                  /\ Len(d.out) = Len(c.out) + 2
                  /\ d.out[Len(c.out) + 1]
                       = Vote(ProposalType, call.h, call.r, data, c.lastCommittedData, n)
                  /\ d.Proposal = d.out[Len(c.out) + 1]
                  /\ d.out[Len(c.out) + 2].Type = PrevoteType
                  /\ d.out[Len(c.out) + 2].Height = call.h
                  /\ d.out[Len(c.out) + 2].Round = call.r
                  /\ d.Height = call.h /\ d.Round = call.r
                  /\ d.Step = RoundStepPrevoteFetch
                  /\ d.timer.Step # RoundStepPropose
                  /\ (c.LockedRound >= 0) = (c.LockedProposal # NoVote)

\* A validator locked in round 0 on Y, which the committee would not give
\* it, waits in PrecommitWait; it is the proposer of round 1, and entering
\* round 1 it proposes Y.
C24_Witness ==
    \E n \in Correct :
        /\ started[n] /\ core[n].panic = ""
        /\ core[n].Round = 0 /\ core[n].Step = RoundStepPrecommitWait
        /\ core[n].LockedRound = 0 /\ core[n].LockedProposal.Proposed = Y
        /\ DecidesProposal(n) # Y
        /\ GetCurrentProposer(1) = n
        /\ enterNewRound(n, core[n], core[n].Height, 1).out[1].Type = ProposalType
        /\ enterNewRound(n, core[n], core[n].Height, 1).out[1].Proposed = Y

\* The FetchVotesRsp messages a peer may send: of any height and round, with
\* the votes of some faulty validators for one value. They are well formed:
\* the votes are of the kind, the height and the round of the response.
FetchRsps ==
    {[Height |-> h, Round |-> r, MissingVotes |-> VotesOf(signers, t, h, r, p)] :
        t \in {PrevoteType, PrecommitType}, h \in 0..(MaxHeight + 1), r \in Rounds,
        p \in FaultyData, signers \in Signers}

\* The validators with a vote of the kind and round of vote v in c.Votes.
VotersLike(c, v) ==
    DOMAIN (IF v.Type = PrevoteType THEN Prevotes(c.Votes, v.Round)
                                    ELSE Precommits(c.Votes, v.Round))

\* C25: FetchVotesRsp acceptance. When a FetchVotesRsp is handled, its votes
\* are merged, each through tryAddVote in the order of the response, if and
\* only if rsp.Height = Height, Round <= rsp.Round and Step is PrevoteFetch
\* or PrecommitFetch; the first vote, when the vote set of its round does
\* not have one of its signer, is then in the vote set (or the height has
\* ended with it). A response that fails a condition leaves the whole core,
\* RoundState and vote sets, as it is.
C25_FetchRspAcceptance ==
    \A n \in Correct : (started[n] /\ core[n].panic = "") =>
        \A rsp \in FetchRsps :
            LET c == core[n]
                d == handleFetchRsp(n, c, rsp.Height, rsp.Round, rsp.MissingVotes)
                first == rsp.MissingVotes[1]
            IN IF /\ rsp.Height = c.Height /\ c.Round <= rsp.Round
                  /\ c.Step \in {RoundStepPrevoteFetch, RoundStepPrecommitFetch}
               THEN /\ d = tryAddVotes(n, c, rsp.MissingVotes)
                    /\ (/\ HeightVoteSetAddVote(c.Votes, first).added
                        /\ first.Address \notin VotersLike(c, first))
                       => \/ d.Height # c.Height
                          \/ first.Address \in VotersLike(d, first)
               ELSE d = c

\* A validator in a fetch step of round 1 is sent a response of round 1,
\* whose vote it merges, and one of round 0, whose vote it would have added
\* and leaves out; and a validator has left a response out for its step.
C25_Witness ==
    /\ \E n \in Correct :
        /\ started[n] /\ core[n].panic = ""
        /\ core[n].Round = 1
        /\ core[n].Step \in {RoundStepPrevoteFetch, RoundStepPrecommitFetch}
        /\ \E rsp \in FetchRsps :
              /\ rsp.Height = core[n].Height /\ rsp.Round = 1
              /\ VotersLike(handleFetchRsp(n, core[n], rsp.Height, rsp.Round,
                                           rsp.MissingVotes), rsp.MissingVotes[1])
                   # VotersLike(core[n], rsp.MissingVotes[1])
        /\ \E rsp \in FetchRsps :
              /\ rsp.Height = core[n].Height /\ rsp.Round = 0
              /\ tryAddVotes(n, core[n], rsp.MissingVotes) # core[n]
              /\ handleFetchRsp(n, core[n], rsp.Height, rsp.Round, rsp.MissingVotes) = core[n]

\* The handling of the PrecommitWait timeout of (Height, Round) by c.
afterPrecommitWait(n, c) ==
    handleTimeout(n, [c EXCEPT !.timer = NoTimeout],
                  [Height |-> c.Height, Round |-> c.Round, Step |-> RoundStepPrecommitWait])

\* C26: the PrecommitWait timeout. When the PrecommitWait timeout of (h, r)
\* is handled by a core at (h, r, PrecommitWait), the enterPrecommit(h, r)
\* called first leaves the core as it is, and the handling signs no
\* precommit and leaves LockedRound and LockedProposal as they were, whether
\* or not the core has precommitted in round r; it ends at height h in round
\* r + 1 at or past step Propose, with no Proposal but the one the core may
\* have made for round r + 1.
C26_PrecommitWaitTimeout ==
    \A n \in Correct :
        (/\ started[n] /\ core[n].panic = ""
         /\ core[n].Step = RoundStepPrecommitWait)
        => LET c == core[n]
               d == afterPrecommitWait(n, c)
           IN /\ enterPrecommit(n, c, c.Height, c.Round) = c
              /\ d.panic = ""
              /\ \A i \in 1..Len(d.out) : d.out[i].Type # PrecommitType
              /\ d.LockedRound = c.LockedRound
              /\ d.LockedProposal = c.LockedProposal
              /\ d.Height = c.Height
              /\ d.Round = c.Round + 1
              /\ d.Step >= RoundStepPropose
              /\ d.Proposal = NoVote \/ d.Proposal.Round = c.Round + 1

\* A validator waits in PrecommitWait of round 0 holding the Proposal of
\* round 0, without a precommit of its own in round 0; the timeout takes it
\* to round 1.
C26_Witness ==
    \E n \in Correct :
        /\ started[n] /\ core[n].panic = ""
        /\ core[n].Step = RoundStepPrecommitWait /\ core[n].Round = 0
        /\ core[n].Proposal # NoVote
        /\ \A i \in 1..Len(net[n]) :
              ~(net[n][i].Type = PrecommitType /\ net[n][i].Height = core[n].Height)
        /\ afterPrecommitWait(n, core[n]).Round = 1
        /\ afterPrecommitWait(n, core[n]).Proposal # core[n].Proposal

\* C27: no equivocation by a correct validator. Within one run, from Start
\* on, the votes a correct validator has signed hold at most one proposal,
\* at most one prevote and at most one precommit of a height and round,
\* whatever votes, proposals and timeouts it has handled.
C27_NoEquivocation ==
    \A n \in Correct : \A i, j \in 1..Len(net[n]) :
        (/\ i < j
         /\ net[n][i].Type = net[n][j].Type
         /\ net[n][i].Height = net[n][j].Height)
        => net[n][i].Round # net[n][j].Round

\* A validator has signed a prevote and a precommit in round 0 and, after
\* its proposal of round 1, a prevote and a precommit in round 1.
C27_Witness ==
    \E n \in Correct :
        /\ core[n].panic = ""
        /\ \A r \in 0..1 : \A t \in {PrevoteType, PrecommitType} :
              \E v \in Signed(n) : v.Type = t /\ v.Height = 1 /\ v.Round = r
        /\ \E v \in Signed(n) : v.Type = ProposalType /\ v.Height = 1 /\ v.Round = 1
=============================================================================
